---- MODULE Spec2Model ----
(***************************************************************************)
(* Model of plaited/development-skills: the scaffold-rules template        *)
(* renderer (src/src/scaffold-rules.ts).                                   *)
(*                                                                         *)
(* A JavaScript string is a sequence of one-character strings, so that the *)
(* regular expressions of the source are modelled character by character.  *)
(***************************************************************************)
EXTENDS Naturals, Sequences, FiniteSets, TLC

VARIABLES
  pc,              \* position of the running function
  context,         \* TemplateContext handed to the function under way
  name,            \* evaluateCondition's condition / generateCrossReference's ruleId
  ret,             \* value returned by the last call of SpecCond
  template,        \* authored structure of the raw text (what `content` serialises)
  content,         \* processTemplate's parameter `content`
  result,          \* local `result` of processTemplate / processConditionals
  previousResult,  \* local `previousResult` of processConditionals
  values,          \* scaffoldRules: parseArgs' `values`
  packageRulesDir, \* the bundled rules directory, as readdir finds it
  unreadable,      \* files of the directory whose text cannot be read
  templateFiles,   \* scaffoldRules: local `templateFiles`
  rulesToProcess,  \* scaffoldRules: local `rulesToProcess`
  fileIndex,       \* position of the for-of loop in rulesToProcess
  templates,       \* scaffoldRules: local `templates`, in property order
  stdout,          \* what console.log wrote
  stderr,          \* what console.error wrote
  exitCalls,       \* the statuses process.exit was called with
  filePath,        \* resolveFilePath's parameter
  cwd,             \* resolveFilePath: process.cwd()
  resolution       \* what Bun.resolve(filePath, cwd) settles with

vars ==
  <<pc, context, name, ret, template, content, result, previousResult,
    values, packageRulesDir, unreadable, templateFiles, rulesToProcess,
    fileIndex, templates, stdout, stderr, exitCalls,
    filePath, cwd, resolution>>

-----------------------------------------------------------------------------
(* Characters and character classes                                        *)

NL == "\n"

Lower == {"a","b","c","d","e","f","g","h","i","j","k","l","m",
          "n","o","p","q","r","s","t","u","v","w","x","y","z"}

Upper == {"A","B","C","D","E","F","G","H","I","J","K","L","M",
          "N","O","P","Q","R","S","T","U","V","W","X","Y","Z"}

Digit == {"0","1","2","3","4","5","6","7","8","9"}

\* \w of a JavaScript regular expression without the u flag
WordChar == Lower \cup Upper \cup Digit \cup {"_"}

\* [\w:-] : the characters of a condition name
CondChar == WordChar \cup {":", "-"}

\* text.startsWith(pat, i - 1): pat occurs in text at (1-based) index i
StartsWithAt(text, i, pat) ==
  /\ i + Len(pat) - 1 <= Len(text)
  /\ \A k \in 1..Len(pat) : text[i + k - 1] = pat[k]

\* text.includes(pat)
Includes(text, pat) == \E i \in 1..Len(text) : StartsWithAt(text, i, pat)

Min(S) == CHOOSE x \in S : \A y \in S : x <= y

\* the leftmost of the indices (hits) at which a regular expression matches
\* (n + 1 if it matches nowhere)
FirstIndex(hits, n) == IF hits = {} THEN n + 1 ELSE Min(hits)

\* first index j >= i whose character is outside class (Len(text)+1 if none):
\* where a greedy run [class]* that starts at i ends
RunEnd(text, i, class) ==
  FirstIndex({k \in i..Len(text) : text[k] \notin class}, Len(text))

\* first index j >= i at which pat occurs (0 if none)
IndexOfFrom(text, i, pat) ==
  LET j == FirstIndex({k \in i..Len(text) : StartsWithAt(text, k, pat)}, Len(text))
  IN IF j > Len(text) THEN 0 ELSE j

-----------------------------------------------------------------------------
(* Agents and capabilities                                                 *)

claude   == <<"c","l","a","u","d","e">>
cursor   == <<"c","u","r","s","o","r">>
factory  == <<"f","a","c","t","o","r","y">>
copilot  == <<"c","o","p","i","l","o","t">>
windsurf == <<"w","i","n","d","s","u","r","f">>
cline    == <<"c","l","i","n","e">>
aider    == <<"a","i","d","e","r">>
agentsMd == <<"a","g","e","n","t","s","-","m","d">>

\* type Agent
Agent == {claude, cursor, factory, copilot, windsurf, cline, aider, agentsMd}

Caps(sandbox, multi, slash, agentsmd) ==
  [hasSandbox |-> sandbox, multiFileRules |-> multi,
   supportsSlashCommands |-> slash, supportsAgentsMd |-> agentsmd]

AGENT_CAPABILITIES(agent) ==
  CASE agent = claude   -> Caps(TRUE,  TRUE,  TRUE,  FALSE)
    [] agent = cursor   -> Caps(FALSE, TRUE,  FALSE, TRUE)
    [] agent = factory  -> Caps(FALSE, TRUE,  FALSE, TRUE)
    [] agent = copilot  -> Caps(FALSE, FALSE, FALSE, TRUE)
    [] agent = windsurf -> Caps(FALSE, FALSE, FALSE, FALSE)
    [] agent = cline    -> Caps(FALSE, FALSE, FALSE, FALSE)
    [] agent = aider    -> Caps(FALSE, FALSE, FALSE, TRUE)
    [] agent = agentsMd -> Caps(FALSE, TRUE,  FALSE, TRUE)

getRulesPath(agent) ==
  CASE agent = claude   -> <<".","c","l","a","u","d","e","/","r","u","l","e","s">>
    [] agent = cursor   -> <<".","c","u","r","s","o","r","/","r","u","l","e","s">>
    [] agent = factory  -> <<".","f","a","c","t","o","r","y","/","r","u","l","e","s">>
    [] agent = agentsMd -> <<".","p","l","a","i","t","e","d","/","r","u","l","e","s">>
    [] agent = copilot  -> <<".","g","i","t","h","u","b","/","c","o","p","i","l","o","t","-","i","n","s","t","r","u","c","t","i","o","n","s",".","m","d">>
    [] agent = windsurf -> <<".","w","i","n","d","s","u","r","f","r","u","l","e","s">>
    [] agent = cline    -> <<".","c","l","i","n","e","r","u","l","e","s">>
    [] agent = aider    -> <<".","a","i","d","e","r",".","c","o","n","f",".","y","m","l">>
    [] OTHER            -> <<".","c","l","a","u","d","e","/","r","u","l","e","s">>

getOutputFormat(agent) ==
  IF agent = agentsMd THEN "agents-md"
  ELSE IF AGENT_CAPABILITIES(agent).multiFileRules THEN "multi-file"
  ELSE "single-file"

\* the context scaffoldRules builds for a valid agent
MakeContext(agent) ==
  [agent |-> agent,
   capabilities |-> AGENT_CAPABILITIES(agent),
   hasDevelopmentSkills |-> TRUE,
   rulesPath |-> getRulesPath(agent)]

-----------------------------------------------------------------------------
(* evaluateCondition                                                       *)

cDevelopmentSkills     == <<"d","e","v","e","l","o","p","m","e","n","t","-","s","k","i","l","l","s">>
cHasSandbox            == <<"h","a","s","-","s","a","n","d","b","o","x">>
cMultiFileRules        == <<"m","u","l","t","i","-","f","i","l","e","-","r","u","l","e","s">>
cSupportsSlashCommands == <<"s","u","p","p","o","r","t","s","-","s","l","a","s","h","-","c","o","m","m","a","n","d","s">>
cSupportsAgentsMd      == <<"s","u","p","p","o","r","t","s","-","a","g","e","n","t","s","-","m","d">>
cAgentPrefix           == <<"a","g","e","n","t",":">>

\* condition.match(/^agent:(\w+)$/) is not null
agentMatch(condition) ==
  /\ StartsWithAt(condition, 1, cAgentPrefix)
  /\ Len(condition) > Len(cAgentPrefix)
  /\ \A k \in (Len(cAgentPrefix) + 1)..Len(condition) : condition[k] \in WordChar

\* agentMatch[1]
agentMatchGroup(condition) ==
  SubSeq(condition, Len(cAgentPrefix) + 1, Len(condition))

\* evaluateCondition with the capability names matched as substrings
evaluateConditionLoose(condition, ctx) ==
  IF Includes(condition, cDevelopmentSkills) THEN ctx.hasDevelopmentSkills
  ELSE IF Includes(condition, cHasSandbox) THEN ctx.capabilities.hasSandbox
  ELSE IF Includes(condition, cMultiFileRules) THEN ctx.capabilities.multiFileRules
  ELSE IF Includes(condition, cSupportsSlashCommands) THEN ctx.capabilities.supportsSlashCommands
  ELSE IF Includes(condition, cSupportsAgentsMd) THEN ctx.capabilities.supportsAgentsMd
  ELSE IF agentMatch(condition) THEN ctx.agent = agentMatchGroup(condition)
  ELSE FALSE

evaluateCondition(condition, ctx) ==
  IF condition = cDevelopmentSkills THEN ctx.hasDevelopmentSkills
  ELSE IF condition = cHasSandbox THEN ctx.capabilities.hasSandbox
  ELSE IF condition = cMultiFileRules THEN ctx.capabilities.multiFileRules
  ELSE IF condition = cSupportsSlashCommands THEN ctx.capabilities.supportsSlashCommands
  ELSE IF condition = cSupportsAgentsMd THEN ctx.capabilities.supportsAgentsMd
  ELSE IF agentMatch(condition) THEN ctx.agent = agentMatchGroup(condition)
  ELSE FALSE

-----------------------------------------------------------------------------
(* generateCrossReference                                                  *)

dotMd == <<".","m","d">>

\* generateCrossReference with the claude path taken from getRulesPath
generateCrossReferenceFixedPath(ruleId, ctx) ==
  CASE ctx.agent = claude   -> <<"@">> \o getRulesPath(claude) \o <<"/">> \o ruleId \o dotMd
    [] ctx.agent = cursor   -> <<".","c","u","r","s","o","r","/","r","u","l","e","s","/">> \o ruleId \o dotMd
    [] ctx.agent = factory  -> <<".","f","a","c","t","o","r","y","/","r","u","l","e","s","/">> \o ruleId \o dotMd
    [] ctx.agent = agentsMd -> <<".","p","l","a","i","t","e","d","/","r","u","l","e","s","/">> \o ruleId \o dotMd
    [] ctx.agent = copilot  -> <<"S","e","e"," ","\"">> \o ruleId \o <<"\""," ","s","e","c","t","i","o","n">>
    [] OTHER                -> ruleId \o dotMd

generateCrossReference(ruleId, ctx) ==
  CASE ctx.agent = claude   -> <<"@">> \o ctx.rulesPath \o <<"/">> \o ruleId \o dotMd
    [] ctx.agent = cursor   -> <<".","c","u","r","s","o","r","/","r","u","l","e","s","/">> \o ruleId \o dotMd
    [] ctx.agent = factory  -> <<".","f","a","c","t","o","r","y","/","r","u","l","e","s","/">> \o ruleId \o dotMd
    [] ctx.agent = agentsMd -> <<".","p","l","a","i","t","e","d","/","r","u","l","e","s","/">> \o ruleId \o dotMd
    [] ctx.agent = copilot  -> <<"S","e","e"," ","\"">> \o ruleId \o <<"\""," ","s","e","c","t","i","o","n">>
    [] OTHER                -> ruleId \o dotMd

-----------------------------------------------------------------------------
(* removeTemplateHeaders: content.replace(/<!--[\s\S]*?-->\n*/g, '')       *)

commentOpen  == <<"<","!","-","-">>
commentClose == <<"-","-",">">>

\* index of the --> that closes a comment opened at i (0: no comment matches at i)
CommentClose(text, i) ==
  IF StartsWithAt(text, i, commentOpen)
  THEN IndexOfFrom(text, i + Len(commentOpen), commentClose)
  ELSE 0

\* the global replace, resumed at index i; acc is the output built so far
RECURSIVE removeHeadersFrom(_, _, _)
removeHeadersFrom(text, i, acc) ==
  LET j == FirstIndex({k \in i..Len(text) : CommentClose(text, k) > 0}, Len(text))
  IN IF j > Len(text) THEN acc \o SubSeq(text, i, Len(text))
     ELSE removeHeadersFrom(text,
            RunEnd(text, CommentClose(text, j) + Len(commentClose), {NL}),
            acc \o SubSeq(text, i, j - 1))

\* the comments removed without the newlines that follow them
RECURSIVE removeCommentsOnlyFrom(_, _, _)
removeCommentsOnlyFrom(text, i, acc) ==
  LET j == FirstIndex({k \in i..Len(text) : CommentClose(text, k) > 0}, Len(text))
  IN IF j > Len(text) THEN acc \o SubSeq(text, i, Len(text))
     ELSE removeCommentsOnlyFrom(text,
            CommentClose(text, j) + Len(commentClose),
            acc \o SubSeq(text, i, j - 1))

removeCommentsOnly(text) == removeCommentsOnlyFrom(text, 1, <<>>)

removeTemplateHeaders(text) == removeHeadersFrom(text, 1, <<>>)

-----------------------------------------------------------------------------
(* processConditionals                                                     *)

openIf    == <<"{","{","#","i","f"," ">>
openNotIf == <<"{","{","^","i","f"," ">>
closeIf   == <<"{","{","/","i","f","}","}">>
closeTok  == <<"}","}">>
openTok   == <<"{","{">>

\* (?!\{\{#if )(?!\{\{\^if )(?!\{\{\/if\}\}) fails at index i
MarkerAt(text, i) ==
  \/ StartsWithAt(text, i, openIf)
  \/ StartsWithAt(text, i, openNotIf)
  \/ StartsWithAt(text, i, closeIf)

\* a greedy body: it runs to the last closing marker
BodyEndGreedy(text, i) ==
  LET hits == {k \in i..Len(text) : StartsWithAt(text, k, closeIf)}
  IN IF hits = {} THEN Len(text) + 1 ELSE CHOOSE x \in hits : \A y \in hits : y <= x

\* first index j >= i at which a marker starts (Len(text)+1 if none): where the
\* lazy body (?:(?!..)[\s\S])*? has to stop
BodyEnd(text, i) == FirstIndex({k \in i..Len(text) : MarkerAt(text, k)}, Len(text))

NoMatch == [ok |-> FALSE]

\* the match of  open ([\w:-]+) \}\} (body) \{\{\/if\}\}  anchored at index i
MatchBlock(text, i, open) ==
  IF ~StartsWithAt(text, i, open) THEN NoMatch
  ELSE LET cs == i + Len(open)
           ce == RunEnd(text, cs, CondChar)
       IN IF ce = cs \/ ~StartsWithAt(text, ce, closeTok) THEN NoMatch
          ELSE LET bs == ce + Len(closeTok)
                   be == BodyEnd(text, bs)
               IN IF ~StartsWithAt(text, be, closeIf) THEN NoMatch
                  ELSE [ok        |-> TRUE,
                        condition |-> SubSeq(text, cs, ce - 1),
                        block     |-> SubSeq(text, bs, be - 1),
                        next      |-> be + Len(closeIf)]

\* result.replace(/<open>...{{/if}}/g, (_, condition, block) => ...):
\* keepWhen is the value of evaluateCondition for which the block is kept
RECURSIVE replaceBlocksFrom(_, _, _, _, _, _)
replaceBlocksFrom(text, i, acc, open, keepWhen, ctx) ==
  LET j == FirstIndex({k \in i..Len(text) : MatchBlock(text, k, open).ok}, Len(text))
      m == MatchBlock(text, j, open)
  IN IF j > Len(text) THEN acc \o SubSeq(text, i, Len(text))
     ELSE replaceBlocksFrom(text, m.next,
            acc \o SubSeq(text, i, j - 1)
                \o (IF evaluateCondition(m.condition, ctx) = keepWhen
                    THEN m.block ELSE <<>>),
            open, keepWhen, ctx)

replacePositive(text, ctx) == replaceBlocksFrom(text, 1, <<>>, openIf, TRUE, ctx)

\* replaceInverse keeping the block when the condition holds, as for {{#if}}
replaceInverseAsPositive(text, ctx) == replaceBlocksFrom(text, 1, <<>>, openNotIf, TRUE, ctx)

replaceInverse(text, ctx) == replaceBlocksFrom(text, 1, <<>>, openNotIf, FALSE, ctx)

\* a pass that resolves the positive blocks only
conditionalPassPositiveOnly(text, ctx) == replacePositive(text, ctx)

\* one iteration of the while loop's body (after previousResult = result)
conditionalPass(text, ctx) == replaceInverse(replacePositive(text, ctx), ctx)

\* the while loop, entered with locals (result, previousResult)
RECURSIVE conditionalLoop(_, _, _)
conditionalLoop(res, prev, ctx) ==
  IF res = prev THEN res
  ELSE conditionalLoop(conditionalPass(res, ctx), res, ctx)

processConditionals(text, ctx) == conditionalLoop(text, <<>>, ctx)

-----------------------------------------------------------------------------
(* processVariables                                                        *)

linkOpen     == <<"{","{","L","I","N","K",":">>
agentNameTok == <<"{","{","A","G","E","N","T","_","N","A","M","E","}","}">>
rulesPathTok == <<"{","{","R","U","L","E","S","_","P","A","T","H","}","}">>

\* result.replace(/\{\{LINK:(\w+)\}\}/g, (_, ruleId) => generateCrossReference(ruleId, context))
\* /\{\{LINK:(\w+)\}\}/ matches at index i
LinkAt(text, i) ==
  LET ws == i + Len(linkOpen)
      we == RunEnd(text, ws, WordChar)
  IN StartsWithAt(text, i, linkOpen) /\ we > ws /\ StartsWithAt(text, we, closeTok)

RECURSIVE replaceLinksFrom(_, _, _, _)
replaceLinksFrom(text, i, acc, ctx) ==
  LET j  == FirstIndex({k \in i..Len(text) : LinkAt(text, k)}, Len(text))
      ws == j + Len(linkOpen)
      we == RunEnd(text, ws, WordChar)
  IN IF j > Len(text) THEN acc \o SubSeq(text, i, Len(text))
     ELSE replaceLinksFrom(text, we + Len(closeTok),
            acc \o SubSeq(text, i, j - 1)
                \o generateCrossReference(SubSeq(text, ws, we - 1), ctx),
            ctx)

replaceLinks(text, ctx) == replaceLinksFrom(text, 1, <<>>, ctx)

\* text.replace(/<tok>/g, rep) for a literal token and a replacement free of `$`
RECURSIVE replaceTokenFrom(_, _, _, _, _)
replaceTokenFrom(text, i, acc, tok, rep) ==
  LET j == IndexOfFrom(text, i, tok)
  IN IF j = 0 THEN acc \o SubSeq(text, i, Len(text))
     ELSE replaceTokenFrom(text, j + Len(tok), acc \o SubSeq(text, i, j - 1) \o rep, tok, rep)

replaceToken(text, tok, rep) == replaceTokenFrom(text, 1, <<>>, tok, rep)

\* the agent name substituted before the cross-references
processVariablesNameFirst(text, ctx) ==
  replaceToken(replaceLinks(replaceToken(text, agentNameTok, ctx.agent), ctx),
               rulesPathTok, ctx.rulesPath)

processVariables(text, ctx) ==
  replaceToken(replaceToken(replaceLinks(text, ctx), agentNameTok, ctx.agent),
               rulesPathTok, ctx.rulesPath)

-----------------------------------------------------------------------------
(* processTemplate                                                         *)

\* result.replace(/\n{3,}/g, '\n\n')
RECURSIVE collapseFrom(_, _, _)
collapseFrom(text, i, acc) ==
  LET j == IndexOfFrom(text, i, <<NL, NL, NL>>)
  IN IF j = 0 THEN acc \o SubSeq(text, i, Len(text))
     ELSE collapseFrom(text, RunEnd(text, j, {NL}), acc \o SubSeq(text, i, j - 1) \o <<NL, NL>>)

\* collapseBlankLines with the pattern /\n{3}/g: three newlines at a time
RECURSIVE collapseThreeFrom(_, _, _)
collapseThreeFrom(text, i, acc) ==
  LET j == IndexOfFrom(text, i, <<NL, NL, NL>>)
  IN IF j = 0 THEN acc \o SubSeq(text, i, Len(text))
     ELSE collapseThreeFrom(text, j + 3, acc \o SubSeq(text, i, j - 1) \o <<NL, NL>>)

collapseThreeAtATime(text) == collapseThreeFrom(text, 1, <<>>)

collapseBlankLines(text) == collapseFrom(text, 1, <<>>)

processTemplate(text, ctx) ==
  collapseBlankLines(
    processVariables(
      processConditionals(
        removeTemplateHeaders(text), ctx), ctx))

-----------------------------------------------------------------------------
(* Raw template texts.  A template is written as a sequence of nodes: text *)
(* and conditional blocks ({{#if c}}body{{/if}}, {{^if c}}body{{/if}});    *)
(* the renderer receives its serialisation.                                *)

Txt(s) == [kind |-> "text", text |-> s, cond |-> <<>>, body |-> <<>>]

Blk(k, c, b) == [kind |-> k, text |-> <<>>, cond |-> c, body |-> b]

BlockKinds == {"if", "unless"}

RECURSIVE Serialize(_)
Serialize(nodes) ==
  IF nodes = <<>> THEN <<>>
  ELSE LET n == Head(nodes)
       IN (IF n.kind = "text" THEN n.text
           ELSE (IF n.kind = "if" THEN openIf ELSE openNotIf)
                \o n.cond \o closeTok \o Serialize(n.body) \o closeIf)
          \o Serialize(Tail(nodes))

\* every text leaf of the template, in order
RECURSIVE Leaves(_)
Leaves(nodes) ==
  IF nodes = <<>> THEN <<>>
  ELSE LET n == Head(nodes)
       IN (IF n.kind = "text" THEN <<n.text>> ELSE Leaves(n.body))
          \o Leaves(Tail(nodes))

\* nesting depth of the blocks of a template
RECURSIVE Depth(_)
Depth(nodes) ==
  IF nodes = <<>> THEN 0
  ELSE LET n == Head(nodes)
           d == IF n.kind = "text" THEN 0 ELSE 1 + Depth(n.body)
           r == Depth(Tail(nodes))
       IN IF d > r THEN d ELSE r

\* bounds of the input space
MaxDepth == 2

MaxPieces == 3

cNonsense    == <<"n","o","n","s","e","n","s","e">>
cAgentCursor == <<"a","g","e","n","t",":","c","u","r","s","o","r">>
cAgentClaude == <<"a","g","e","n","t",":","c","l","a","u","d","e">>

TreeConds == {cHasSandbox, cAgentCursor, cNonsense}

Blocks(bodies) == {Blk(k, c, b) : k \in BlockKinds, c \in TreeConds, b \in bodies}

LeafBodies == {<<>>, <<Txt(<<"B">>)>>}

\* bodies nested up to depth d: a leaf, or the text A followed by a block
RECURSIVE Bodies(_)
Bodies(d) ==
  IF d = 0 THEN LeafBodies
  ELSE LeafBodies \cup {<<Txt(<<"A">>), n>> : n \in Blocks(Bodies(d - 1))}

\* family 1: nested blocks, up to MaxDepth deep
NestedTemplates ==
  Bodies(MaxDepth) \cup {<<n>> : n \in Blocks(Bodies(MaxDepth - 1))}

SiblingConds == {cDevelopmentSkills, cAgentClaude, cNonsense}

\* family 2: adjacent sibling blocks around a text
SiblingTemplates ==
  {<<Blk(k1, c1, <<Txt(<<"X">>)>>), Txt(<<"Y">>), Blk(k2, c2, <<Txt(<<"Z">>)>>)>> :
     k1 \in BlockKinds, c1 \in SiblingConds, k2 \in BlockKinds, c2 \in SiblingConds}

\* the rule identifiers of the bundled catalog
RuleCatalog == {<<"a","c","c","u","r","a","c","y">>, <<"b","u","n","-","a","p","i","s">>, <<"c","o","d","e","-","r","e","v","i","e","w">>,
                <<"g","i","t","-","w","o","r","k","f","l","o","w">>, <<"g","i","t","h","u","b">>, <<"t","e","s","t","i","n","g">>}

LinkToken(ruleId) == linkOpen \o ruleId \o closeTok

VariableTokens == {LinkToken(id) : id \in RuleCatalog} \cup {agentNameTok, rulesPathTok}

\* family 3: variable tokens, bare, after a text, and inside a block
VariableTemplates ==
  {<<Txt(v)>> : v \in VariableTokens}
  \cup {<<Txt(v), Txt(<<" ">>), Txt(w)>> : v \in VariableTokens, w \in {agentNameTok, LinkToken(<<"t","e","s","t","i","n","g">>)}}
  \cup {<<Blk(k, cHasSandbox, <<Txt(v)>>)>> : k \in BlockKinds, v \in VariableTokens}

\* family 4: free sequences of pieces, well formed or not
Pieces == {<<"x">>, <<NL>>, <<NL, NL>>,
           <<"{","{","#","i","f"," ","h","a","s","-","s","a","n","d","b","o","x","}","}">>, closeIf, agentNameTok,
           commentOpen, commentClose}

RECURSIVE PieceSeqs(_)
PieceSeqs(n) ==
  IF n = 0 THEN {<<>>}
  ELSE LET shorter == PieceSeqs(n - 1)
       IN shorter \cup {Append(t, Txt(p)) : t \in {u \in shorter : Len(u) = n - 1}, p \in Pieces}

PieceTemplates == PieceSeqs(MaxPieces)

\* family 5: markers split by blocks and comments, and tokens the renderer
\* does not know
SplitTemplates ==
  {<<Txt(<<"<","!">>), Blk("if", cDevelopmentSkills, <<>>), Txt(<<"-","-"," ","h"," ","-","-",">">>)>>,
   <<Txt(<<"<","!","-">>), Txt(<<"<","!","-","-","-","-",">">>), Txt(<<"-"," ","h"," ","-","-",">">>)>>,
   <<Txt(<<"{","{","#">>), Blk("if", cDevelopmentSkills, <<>>), Txt(<<"i","f"," ","n","o","n","s","e","n","s","e","}","}","X","{","{","/">>),
     Blk("if", cDevelopmentSkills, <<>>), Txt(<<"i","f","}","}">>)>>,
   <<Txt(<<"{","{","#","i","f"," ","a","g","e","n","t",":","{","{","A","G","E","N","T","_","N","A","M","E","}","}","}","}","X","{","{","/","i","f","}","}">>)>>,
   <<Txt(<<"{","{","L","I","N","K",":","{","{","A","G","E","N","T","_","N","A","M","E","}","}","}","}">>)>>,
   <<Txt(<<"{","<","!","-","-","-","-",">","{","A","G","E","N","T","_","N","A","M","E","}","}">>)>>,
   <<Txt(<<"{","{","U","N","K","N","O","W","N","}","}">>)>>,
   <<Txt(<<"{","{","#","i","f"," ","h","a","s"," ","s","a","n","d","b","o","x","}","}","X","{","{","/","i","f","}","}">>)>>,
   <<Txt(<<"{","{","#","i","f"," ","a","g","e","n","t",":","a","g","e","n","t","s","-","m","d","}","}","X","{","{","/","i","f","}","}">>)>>}

\* family 6: the head of the bundled git-workflow template (src/unnamed/part_001)
GitWorkflowHead ==
  <<Txt(<<"<","!","-","-","\n","R","U","L","E"," ","T","E","M","P","L","A","T","E","\n","V","a","r","i","a","b","l","e","s",":"," ","{","{","#","i","f"," ","a","g","e","n","t",":","c","l","a","u","d","e","}","}","\n","-","-",">","\n","\n","#"," ","G","i","t","\n","\n">>),
    Blk("if", cAgentClaude, <<Txt(<<"\n","s","i","n","g","l","e","-","q","u","o","t","e","d","\n">>)>>), Txt(<<NL>>),
    Blk("unless", cAgentClaude, <<Txt(<<"\n","U","s","e"," ","m","u","l","t","i","-","l","i","n","e","\n">>)>>), Txt(<<"\n","\n","#","#"," ","H","o","o","k","s","\n">>)>>

\* family 7: comments around markers, tokens and newlines
CommentTemplates ==
  {<<Txt(<<"<","!","-","-"," ","{","{","#","i","f"," ","h","a","s","-","s","a","n","d","b","o","x","}","}"," ","-","-",">","\n","\n","A","{","{","/","i","f","}","}","B">>)>>,
   <<Txt(<<"{","{","#","i","f"," ","n","o","n","s","e","n","s","e","}","}","A","<","!","-","-"," ","{","{","/","i","f","}","}"," ","-","-",">","B","{","{","/","i","f","}","}","C">>)>>,
   <<Txt(<<"<","!","-","-"," ","{","{","A","G","E","N","T","_","N","A","M","E","}","}"," ","{","{","L","I","N","K",":","t","e","s","t","i","n","g","}","}"," ","-","-",">","{","{","A","G","E","N","T","_","N","A","M","E","}","}">>)>>,
   <<Txt(<<"A","<","!","-","-"," ","c"," ","-","-",">","\n","\n","\n","B","<","!","-","-"," ","d"," ","-","-",">","C">>)>>,
   <<Txt(<<"A","\n","<","!","-","-"," ","c"," ","-","-",">","B">>)>>,
   <<Txt(<<"<","!","-","-"," ","o","p","e","n"," ","{","{","#","i","f"," ","d","e","v","e","l","o","p","m","e","n","t","-","s","k","i","l","l","s","}","}","X","{","{","/","i","f","}","}">>)>>}

Templates ==
  NestedTemplates \cup SiblingTemplates \cup VariableTemplates
  \cup PieceTemplates \cup SplitTemplates \cup {GitWorkflowHead}
  \cup CommentTemplates

-----------------------------------------------------------------------------
(* extractDescription                                                      *)

Max(S) == CHOOSE x \in S : \A y \in S : x >= y

\* white space removed by String.prototype.trim (a line holds no "\n")
WhiteSpace == {" ", "\t", "\r", "\f", NL}

\* String.prototype.trim
trim(s) ==
  LET inked == {k \in 1..Len(s) : s[k] \notin WhiteSpace}
  IN IF inked = {} THEN <<>> ELSE SubSeq(s, Min(inked), Max(inked))

\* String.prototype.startsWith
startsWith(s, prefix) == StartsWithAt(s, 1, prefix)

\* content.split('\n'): the indices at which lines[1], lines[2], ... begin
\* (lines[0] begins at index 1)
laterLineStarts(text) == {k + 1 : k \in {j \in 1..Len(text) : text[j] = NL}}

\* the element of content.split('\n') that begins at index p
lineAt(text, p) ==
  SubSeq(text, p, FirstIndex({k \in p..Len(text) : text[k] = NL}, Len(text)) - 1)

\* if (line && !line.startsWith('#') && !line.startsWith('**'))
describes(line) ==
  /\ line # <<>>
  /\ ~startsWith(line, <<"#">>)
  /\ ~startsWith(line, <<"*","*">>)

defaultDescription == <<"D","e","v","e","l","o","p","m","e","n","t"," ","r","u","l","e">>

\* the title line taken for a description as well
extractDescriptionFromTitle(text) ==
  LET found == {p \in laterLineStarts(text) \cup {1} : describes(trim(lineAt(text, p)))}
      description == IF found = {} THEN <<>> ELSE trim(lineAt(text, Min(found)))
  IN IF description # <<>> THEN description ELSE defaultDescription

extractDescription(text) ==
  LET found == {p \in laterLineStarts(text) : describes(trim(lineAt(text, p)))}
      description == IF found = {} THEN <<>> ELSE trim(lineAt(text, Min(found)))
  IN IF description # <<>> THEN description ELSE defaultDescription

-----------------------------------------------------------------------------
(* generateAgentsMd                                                        *)

\* Array.prototype.join('\n')
RECURSIVE joinLines(_)
joinLines(lines) ==
  IF lines = <<>> THEN <<>>
  ELSE IF Len(lines) = 1 THEN lines[1]
  ELSE lines[1] \o <<NL>> \o joinLines(Tail(lines))

\* the character U+0060, which a string of this language cannot hold
backquote == "U+0060"

agentsMdPreamble ==
  <<<<"#"," ","A","G","E","N","T","S",".","m","d">>,
    <<>>,
    <<"D","e","v","e","l","o","p","m","e","n","t"," ","r","u","l","e","s"," ","f","o","r"," ","A","I"," ","c","o","d","i","n","g"," ","a","g","e","n","t","s",".">>,
    <<>>,
    <<"#","#"," ","R","u","l","e","s">>,
    <<>>,
    <<"T","h","i","s"," ","p","r","o","j","e","c","t"," ","u","s","e","s"," ","m","o","d","u","l","a","r"," ","d","e","v","e","l","o","p","m","e","n","t"," ","r","u","l","e","s"," ","s","t","o","r","e","d"," ","i","n"," ",backquote,".","p","l","a","i","t","e","d","/","r","u","l","e","s","/",backquote,".">>,
    <<"E","a","c","h"," ","r","u","l","e"," ","f","i","l","e"," ","c","o","v","e","r","s"," ","a"," ","s","p","e","c","i","f","i","c"," ","t","o","p","i","c",":">>,
    <<>>>>

agentsMdClosing ==
  <<<<>>,
    <<"#","#"," ","Q","u","i","c","k"," ","R","e","f","e","r","e","n","c","e">>,
    <<>>,
    <<"F","o","r"," ","d","e","t","a","i","l","e","d"," ","g","u","i","d","a","n","c","e"," ","o","n"," ","e","a","c","h"," ","t","o","p","i","c",","," ","s","e","e"," ","t","h","e"," ","l","i","n","k","e","d"," ","r","u","l","e"," ","f","i","l","e","s"," ","a","b","o","v","e",".">>,
    <<>>>>

\* `- [${ruleId}](.plaited/rules/${template.filename}) - ${template.description}`
agentsMdBullet(entry) ==
  <<"-"," ","[">> \o entry.ruleId \o <<"]","(",".","p","l","a","i","t","e","d","/","r","u","l","e","s","/">> \o entry.filename
  \o <<")"," ","-"," ">> \o entry.description

\* the manifest without a bullet for the last entry
generateAgentsMdButLast(tpls) ==
  joinLines(agentsMdPreamble
            \o [k \in 1..(Len(tpls) - 1) |-> agentsMdBullet(tpls[k])]
            \o agentsMdClosing)

\* templates: the entries of the Record in insertion order (Object.entries)
generateAgentsMd(tpls) ==
  joinLines(agentsMdPreamble
            \o [k \in 1..Len(tpls) |-> agentsMdBullet(tpls[k])]
            \o agentsMdClosing)

-----------------------------------------------------------------------------
(* scaffoldRules: helpers                                                  *)

\* String.prototype.endsWith
endsWith(s, suffix) ==
  /\ Len(s) >= Len(suffix)
  /\ SubSeq(s, Len(s) - Len(suffix) + 1, Len(s)) = suffix

\* s.replace(pattern, replacement) with a string pattern: the first
\* occurrence only
replaceFirst(s, pattern, replacement) ==
  LET at == IndexOfFrom(s, 1, pattern)
  IN IF at = 0 THEN s
     ELSE SubSeq(s, 1, at - 1) \o replacement \o SubSeq(s, at + Len(pattern), Len(s))

\* Array.prototype.includes
includes(list, x) == \E k \in 1..Len(list) : list[k] = x

validAgentsAndGemini ==
  <<claude, cursor, factory, copilot, windsurf, cline, aider, agentsMd, <<"g","e","m","i","n","i">>>>

validAgents == <<claude, cursor, factory, copilot, windsurf, cline, aider, agentsMd>>

\* file.replace('.md', '')
ruleIdOf(file) == replaceFirst(file, dotMd, <<>>)

\* templateFiles.filter((f) => f.endsWith('.md'))
mdFilesOf(files) == SelectSeq(files, LAMBDA f : endsWith(f, dotMd))

selectEveryRule(mdFiles, parsed) == mdFiles

\* rulesFilter ? mdFiles.filter((f) => rulesFilter.includes(f.replace('.md', ''))) : mdFiles
\* where rulesFilter = parsed.rules, undefined when --rules was not given
selectRules(mdFiles, parsed) ==
  IF "rules" \in DOMAIN parsed
  THEN SelectSeq(mdFiles, LAMBDA f : includes(parsed.rules, ruleIdOf(f)))
  ELSE mdFiles

\* every rule stored under one and the same property
setOnlyTemplate(tpls, entry) == <<entry>>

\* templates[ruleId] = {...}: an existing property keeps its place, a new one
\* is added last (rule identifiers are not integer-like keys)
setTemplate(tpls, entry) ==
  IF \E k \in 1..Len(tpls) : tpls[k].ruleId = entry.ruleId
  THEN [k \in 1..Len(tpls) |-> IF tpls[k].ruleId = entry.ruleId THEN entry ELSE tpls[k]]
  ELSE Append(tpls, entry)

\* the context changed by the loop: every file after the first is rendered
\* for cursor
processedTemplateDrifting(file, text, ctx) ==
  LET used == IF fileIndex > 1 THEN MakeContext(cursor) ELSE ctx
      processed == processTemplate(text, used)
  IN [ruleId |-> ruleIdOf(file),
      filename |-> file,
      content |-> processed,
      description |-> extractDescription(processed)]

\* the entry the loop body stores for a file whose text is `text`
processedTemplate(file, text, ctx) ==
  LET processed == processTemplate(text, ctx)
  IN [ruleId |-> ruleIdOf(file),
      filename |-> file,
      content |-> processed,
      description |-> extractDescription(processed)]

\* the ScaffoldOutput handed to JSON.stringify: agentsMdContent is a
\* property of the agents-md output only
scaffoldOutput(agent, tpls) ==
  LET output == [agent |-> agent,
                 rulesPath |-> getRulesPath(agent),
                 format |-> getOutputFormat(agent),
                 supportsAgentsMd |-> AGENT_CAPABILITIES(agent).supportsAgentsMd,
                 templates |-> tpls]
  IN IF agent = agentsMd
     THEN output @@ [agentsMdContent |-> generateAgentsMd(tpls)]
     ELSE output

invalidAgentMessage(agent) ==
  <<"E","r","r","o","r",":"," ","I","n","v","a","l","i","d"," ","a","g","e","n","t"," ","\"">> \o agent \o <<"\"","."," ","M","u","s","t"," ","b","e"," ","o","n","e"," ","o","f",":"," ">>
  \o <<"c","l","a","u","d","e",","," ","c","u","r","s","o","r",","," ","f","a","c","t","o","r","y",","," ","c","o","p","i","l","o","t",","," ","w","i","n","d","s","u","r","f",","," ","c","l","i","n","e",","," ","a","i","d","e","r",","," ","a","g","e","n","t","s","-","m","d">>

-----------------------------------------------------------------------------
(* scaffoldRules: the command line and the bundled rules directory         *)

MaxFiles == 3
MaxFilter == 2

\* --agent values: the eight identities and two that are not
AgentValues == Agent \cup {<<"C","l","a","u","d","e">>, <<"g","e","m","i","n","i">>}

gitWorkflowMd == <<"g","i","t","-","w","o","r","k","f","l","o","w",".","m","d">>
testingMd == <<"t","e","s","t","i","n","g",".","m","d">>
bunApisMd == <<"b","u","n","-","a","p","i","s",".","m","d">>

\* names readdir may report: three rule templates of the catalog and two
\* entries that are not templates
FileNames == {gitWorkflowMd, testingMd, bunApisMd, <<"R","E","A","D","M","E",".","t","x","t">>, <<"t","e","s","t","i","n","g",".","m","d",".","b","a","k">>}

\* --rules values: identifiers of the catalog, one of no template and a
\* file name
RuleValues == {<<"t","e","s","t","i","n","g">>, <<"b","u","n","-","a","p","i","s">>, <<"u","n","k","n","o","w","n">>, testingMd}

\* sequences of at most n elements of S
RECURSIVE SeqsUpTo(_, _)
SeqsUpTo(S, n) ==
  IF n = 0 THEN {<<>>}
  ELSE LET shorter == SeqsUpTo(S, n - 1)
       IN shorter \cup {Append(q, x) : q \in {u \in shorter : Len(u) = n - 1}, x \in S}

\* a directory listing names each entry once, in any order
Listings ==
  {l \in SeqsUpTo(FileNames, MaxFiles) : \A j, k \in 1..Len(l) : l[j] = l[k] => j = k}

\* parseArgs' values: --rules given at least once (multiple: true) or not at
\* all; agent is always set (default 'claude')
ParsedValues ==
  [agent : AgentValues]
  \cup [agent : AgentValues, rules : SeqsUpTo(RuleValues, MaxFilter) \ {<<>>}]

\* the rules directory: its listing, or no directory (readdir rejects)
Directories ==
  {[exists |-> TRUE, entries |-> l] : l \in Listings}
  \cup {[exists |-> FALSE, entries |-> <<>>]}

\* Bun.file(templatePath).text() for the files of the rules directory
fileText(file) ==
  CASE file = gitWorkflowMd -> Serialize(GitWorkflowHead)
    [] file = testingMd -> <<"#"," ","T","e","s","t","i","n","g","\n","\n"," "," ","U","s","e"," ","t","e","s","t","(",")"," ","i","n","s","t","e","a","d"," ","o","f"," ","i","t","(",")",".","\n","\n","S","e","e"," ","{","{","L","I","N","K",":","a","c","c","u","r","a","c","y","}","}","\n">>
    [] file = bunApisMd -> <<"#"," ","B","u","n"," ","A","P","I","s","\n","\n","*","*","P","r","e","f","e","r"," ","B","u","n","*","*","\n","{","{","^","i","f"," ","h","a","s","-","s","a","n","d","b","o","x","}","}","\n","#","#"," ","S","h","e","l","l","\n","{","{","/","i","f","}","}">>
    [] OTHER -> <<"n","o","t"," ","a"," ","t","e","m","p","l","a","t","e","\n">>

-----------------------------------------------------------------------------
(* Spec: one invocation of scaffoldRules(args), a step per synchronous     *)
(* stretch between two awaits                                              *)

NoCall == "none"

\* no TemplateContext built yet
noContext == [built |-> FALSE]

renderVars == <<name, ret, template, content, result, previousResult>>

scaffoldVars ==
  <<values, packageRulesDir, unreadable, templateFiles, rulesToProcess,
    fileIndex, templates, stdout, stderr, exitCalls>>

resolveVars == <<filePath, cwd, resolution>>

\* resolveFilePath is not called
NoPath ==
  /\ filePath = <<>>
  /\ cwd = <<>>
  /\ resolution = [ok |-> FALSE, path |-> <<>>]

\* locals and streams of scaffoldRules before its first statement
ScaffoldEntry ==
  /\ templateFiles = <<>>
  /\ rulesToProcess = <<>>
  /\ fileIndex = 0
  /\ templates = <<>>
  /\ stdout = <<>>
  /\ stderr = <<>>
  /\ exitCalls = <<>>

\* the functions of the renderer are specified without a command line
NoCommandLine ==
  /\ values = [agent |-> claude]
  /\ packageRulesDir = [exists |-> FALSE, entries |-> <<>>]
  /\ unreadable = {}
  /\ ScaffoldEntry

Init ==
  /\ values \in ParsedValues
  /\ packageRulesDir \in Directories
  /\ unreadable \in {{}, {testingMd}}
  /\ ScaffoldEntry
  /\ pc = "validate"
  /\ context = noContext
  /\ name = NoCall
  /\ ret = NoCall
  /\ template = <<>>
  /\ content = <<>>
  /\ result = <<>>
  /\ previousResult = <<>>
  /\ NoPath

\* if (!validAgents.includes(agent)) { console.error(...); process.exit(1) }
RejectAgent ==
  /\ pc = "validate"
  /\ ~includes(validAgents, values.agent)
  /\ stderr' = Append(stderr, invalidAgentMessage(values.agent))
  /\ exitCalls' = Append(exitCalls, 1)
  /\ pc' = "exited"
  /\ UNCHANGED <<context, values, packageRulesDir, unreadable, templateFiles,
                 rulesToProcess, fileIndex, templates, stdout>>
  /\ UNCHANGED renderVars
  /\ UNCHANGED resolveVars

\* the agent is valid: await readdir(packageRulesDir)
AwaitReaddir ==
  /\ pc = "validate"
  /\ includes(validAgents, values.agent)
  /\ pc' = "readdir"
  /\ UNCHANGED <<context, scaffoldVars, renderVars>>
  /\ UNCHANGED resolveVars

\* readdir resolves: the files are selected, the context is built and the
\* loop is entered
ReaddirResolves ==
  /\ pc = "readdir"
  /\ packageRulesDir.exists
  /\ templateFiles' = packageRulesDir.entries
  /\ rulesToProcess' = selectRules(mdFilesOf(packageRulesDir.entries), values)
  /\ templates' = <<>>
  /\ context' = MakeContext(values.agent)
  /\ fileIndex' = 1
  /\ pc' = "loop"
  /\ UNCHANGED <<values, packageRulesDir, unreadable, stdout, stderr, exitCalls>>
  /\ UNCHANGED renderVars
  /\ UNCHANGED resolveVars

\* readdir rejects: scaffoldRules rejects
ReaddirRejects ==
  /\ pc = "readdir"
  /\ ~packageRulesDir.exists
  /\ pc' = "rejected"
  /\ UNCHANGED <<context, scaffoldVars, renderVars>>
  /\ UNCHANGED resolveVars

\* Bun.file(templatePath).text() resolves: the rest of the loop body
ProcessFile ==
  /\ pc = "loop"
  /\ fileIndex <= Len(rulesToProcess)
  /\ rulesToProcess[fileIndex] \notin unreadable
  /\ content' = fileText(rulesToProcess[fileIndex])
  /\ templates' = setTemplate(templates,
                    processedTemplate(rulesToProcess[fileIndex],
                                      fileText(rulesToProcess[fileIndex]), context))
  /\ fileIndex' = fileIndex + 1
  /\ UNCHANGED <<pc, context, values, packageRulesDir, unreadable, templateFiles,
                 rulesToProcess, stdout, stderr, exitCalls>>
  /\ UNCHANGED <<name, ret, template, result, previousResult>>
  /\ UNCHANGED resolveVars

\* a file that cannot be read is passed over and the loop goes on
ReadRejectsSkipped ==
  /\ pc = "loop"
  /\ fileIndex <= Len(rulesToProcess)
  /\ rulesToProcess[fileIndex] \in unreadable
  /\ fileIndex' = fileIndex + 1
  /\ UNCHANGED <<pc, context, values, packageRulesDir, unreadable, templateFiles,
                 rulesToProcess, templates, stdout, stderr, exitCalls>>
  /\ UNCHANGED <<renderVars, resolveVars>>

\* Bun.file(templatePath).text() rejects: scaffoldRules rejects
ReadRejects ==
  /\ pc = "loop"
  /\ fileIndex <= Len(rulesToProcess)
  /\ rulesToProcess[fileIndex] \in unreadable
  /\ pc' = "rejected"
  /\ UNCHANGED <<context, scaffoldVars, renderVars>>
  /\ UNCHANGED resolveVars

\* the loop is over: the output is built and written
WriteOutput ==
  /\ pc = "loop"
  /\ fileIndex > Len(rulesToProcess)
  /\ stdout' = Append(stdout, scaffoldOutput(values.agent, templates))
  /\ pc' = "done"
  /\ UNCHANGED <<context, values, packageRulesDir, unreadable, templateFiles,
                 rulesToProcess, fileIndex, templates, stderr, exitCalls>>
  /\ UNCHANGED renderVars
  /\ UNCHANGED resolveVars

Next ==
  \/ RejectAgent
  \/ AwaitReaddir
  \/ ReaddirResolves
  \/ ReaddirRejects
  \/ ProcessFile
  \/ ReadRejects
  \/ WriteOutput

Spec == Init /\ [][Next]_vars

-----------------------------------------------------------------------------
(* SpecRender: processTemplate(content, context), one stage per step       *)

InitRender ==
  /\ context \in {MakeContext(a) : a \in Agent}
  /\ template \in Templates
  /\ content = Serialize(template)
  /\ result = content
  /\ previousResult = <<>>
  /\ pc = "headers"
  /\ name = NoCall
  /\ ret = NoCall
  /\ NoCommandLine
  /\ NoPath

\* 1. result = removeTemplateHeaders(result); processConditionals is entered
RemoveHeaders ==
  /\ pc = "headers"
  /\ result' = removeTemplateHeaders(result)
  /\ previousResult' = <<>>
  /\ pc' = "conditionals"
  /\ UNCHANGED <<context, name, ret, template, content>>
  /\ UNCHANGED scaffoldVars
  /\ UNCHANGED resolveVars

\* 2. one iteration of processConditionals' while loop
ConditionalsPass ==
  /\ pc = "conditionals"
  /\ result # previousResult
  /\ previousResult' = result
  /\ result' = conditionalPass(result, context)
  /\ UNCHANGED <<pc, context, name, ret, template, content>>
  /\ UNCHANGED scaffoldVars
  /\ UNCHANGED resolveVars

\* the loop condition fails: processConditionals returns result
ConditionalsReturn ==
  /\ pc = "conditionals"
  /\ result = previousResult
  /\ pc' = "variables"
  /\ UNCHANGED <<context, name, ret, template, content, result, previousResult>>
  /\ UNCHANGED scaffoldVars
  /\ UNCHANGED resolveVars

\* 3. result = processVariables(result, context)
SubstituteVariables ==
  /\ pc = "variables"
  /\ result' = processVariables(result, context)
  /\ pc' = "cleanup"
  /\ UNCHANGED <<context, name, ret, template, content, previousResult>>
  /\ UNCHANGED scaffoldVars
  /\ UNCHANGED resolveVars

\* 4. result = result.replace(/\n{3,}/g, '\n\n'); return result
CleanUp ==
  /\ pc = "cleanup"
  /\ result' = collapseBlankLines(result)
  /\ pc' = "done"
  /\ UNCHANGED <<context, name, ret, template, content, previousResult>>
  /\ UNCHANGED scaffoldVars
  /\ UNCHANGED resolveVars

NextRender ==
  \/ RemoveHeaders
  \/ ConditionalsPass
  \/ ConditionalsReturn
  \/ SubstituteVariables
  \/ CleanUp

SpecRender == InitRender /\ [][NextRender]_vars

-----------------------------------------------------------------------------
(* SpecCond: evaluateCondition(name, context), generateCrossReference(name,*)
(* context) and the rendering of {{#if name}}X{{/if}}, over the contexts   *)
(* of type TemplateContext                                                 *)

CapabilitySets == {Caps(a, b, c, d) : a \in BOOLEAN, b \in BOOLEAN, c \in BOOLEAN, d \in BOOLEAN}

customRulesPath == <<"d","o","c","s","/","r","u","l","e","s">>

ContextsOf(a) ==
  {[agent |-> a, capabilities |-> k, hasDevelopmentSkills |-> h, rulesPath |-> r] :
     k \in CapabilitySets, h \in BOOLEAN, r \in {getRulesPath(a), customRulesPath}}

Contexts == UNION {ContextsOf(a) : a \in Agent}

CapabilityNames ==
  {cDevelopmentSkills, cHasSandbox, cMultiFileRules, cSupportsSlashCommands, cSupportsAgentsMd}

ConditionNames ==
  CapabilityNames
  \cup {cAgentPrefix \o a : a \in Agent}
  \cup {cNonsense, cAgentPrefix, <<>>,
        <<"a","g","e","n","t",":","C","l","a","u","d","e">>, <<"a","g","e","n","t",":","c","l","a","u","d">>, <<"a","g","e","n","t",":","c","u","r","s","o","r"," ">>, <<"A","g","e","n","t",":","c","l","a","u","d","e">>,
        <<"a","g","e","n","t",":","c","u","r","s","o","r",":","x">>, <<"H","a","s","-","s","a","n","d","b","o","x">>, <<"h","a","s","-","s","a","n","d","b","o">>, <<"h","a","s","-","s","a","n","d","b","o","x","x">>,
        <<"s","a","n","d","b","o","x">>, <<"m","u","l","t","i","-","f","i","l","e">>, <<"H","A","S","-","S","A","N","D","B","O","X">>, <<"c","l","a","u","d","e">>}

Names == ConditionNames \cup RuleCatalog

ConditionalOn(condition) == openIf \o condition \o closeTok \o <<"X">> \o closeIf

InitCond ==
  /\ context \in Contexts
  /\ name \in Names
  /\ ret = NoCall
  /\ pc = "call"
  /\ template = <<>>
  /\ content = <<>>
  /\ result = <<>>
  /\ previousResult = <<>>
  /\ NoCommandLine
  /\ NoPath

CallEvaluateCondition ==
  /\ pc = "call"
  /\ ret' = evaluateCondition(name, context)
  /\ pc' = "evaluated"
  /\ UNCHANGED <<context, name, template, content, result, previousResult>>
  /\ UNCHANGED scaffoldVars
  /\ UNCHANGED resolveVars

CallGenerateCrossReference ==
  /\ pc = "call"
  /\ ret' = generateCrossReference(name, context)
  /\ pc' = "linked"
  /\ UNCHANGED <<context, name, template, content, result, previousResult>>
  /\ UNCHANGED scaffoldVars
  /\ UNCHANGED resolveVars

RenderConditional ==
  /\ pc = "call"
  /\ content' = ConditionalOn(name)
  /\ ret' = processTemplate(ConditionalOn(name), context)
  /\ pc' = "rendered"
  /\ UNCHANGED <<context, name, template, result, previousResult>>
  /\ UNCHANGED scaffoldVars
  /\ UNCHANGED resolveVars

NextCond ==
  \/ CallEvaluateCondition
  \/ CallGenerateCrossReference
  \/ RenderConditional

SpecCond == InitCond /\ [][NextCond]_vars

-----------------------------------------------------------------------------
(* Claims about evaluateCondition and generateCrossReference (SpecCond)    *)

\* the name after the prefix agent:
AgentNameOf(condition) == SubSeq(condition, Len(cAgentPrefix) + 1, Len(condition))

IsAgentCondition(condition) == StartsWithAt(condition, 1, cAgentPrefix)

\* the context is one scaffoldRules builds (lines 407-415)
ProgramContext == context = MakeContext(context.agent)

\* C3 (as claimed): for every agent identity A and every name N,
\* evaluateCondition("agent:" + N), in the context scaffoldRules builds for A,
\* is true iff N equals A exactly; in particular agent:<A> is true for each of
\* the eight identities.
C3_AgentConditionIffEqual ==
  (pc = "evaluated" /\ ProgramContext /\ IsAgentCondition(name))
    => (ret <=> (AgentNameOf(name) = context.agent))

\* the value the claim C7 gives a condition name that is not agent:<name>
FlagOf(condition, ctx) ==
  CASE condition = cDevelopmentSkills     -> ctx.hasDevelopmentSkills
    [] condition = cHasSandbox            -> ctx.capabilities.hasSandbox
    [] condition = cMultiFileRules        -> ctx.capabilities.multiFileRules
    [] condition = cSupportsSlashCommands -> ctx.capabilities.supportsSlashCommands
    [] condition = cSupportsAgentsMd      -> ctx.capabilities.supportsAgentsMd
    [] OTHER                              -> FALSE

\* a name of the grammar [A-Za-z0-9_:-]+
IsConditionToken(condition) ==
  condition # <<>> /\ \A k \in 1..Len(condition) : condition[k] \in CondChar

\* C7: evaluateCondition returns the context's flag for each of the five
\* capability names and false for every other name that is not of the form
\* agent:<name>, names being matched exactly; so {{#if c}}X{{/if}} renders to X
\* when the flag of c is set and to the empty string otherwise, in particular
\* for every unknown name c and every agent.
C7_FlagsAndUnknownNames ==
  /\ (pc = "evaluated" /\ ~IsAgentCondition(name)) => (ret = FlagOf(name, context))
  /\ (pc = "rendered" /\ ~IsAgentCondition(name) /\ IsConditionToken(name))
       => (ret = IF FlagOf(name, context) THEN <<"X">> ELSE <<>>)

C7_Witness ==
  /\ pc = "rendered"
  /\ name = cNonsense
  /\ content = ConditionalOn(cNonsense)
  /\ context.capabilities.hasSandbox
  /\ ret = <<>>

\* the lookup table of claim C8
CrossReferenceTable(ruleId, agent, rulesPath) ==
  IF agent = claude THEN <<"@">> \o rulesPath \o <<"/">> \o ruleId \o dotMd
  ELSE IF agent \in {cursor, factory} THEN <<".">> \o agent \o <<"/","r","u","l","e","s","/">> \o ruleId \o dotMd
  ELSE IF agent = agentsMd THEN <<".","p","l","a","i","t","e","d","/","r","u","l","e","s","/">> \o ruleId \o dotMd
  ELSE IF agent = copilot THEN <<"S","e","e"," ","\"">> \o ruleId \o <<"\""," ","s","e","c","t","i","o","n">>
  ELSE ruleId \o dotMd

\* C8: generateCrossReference is a lookup on the agent identity: its result is
\* the table's entry for (ruleId, agent, rulesPath), whatever the capabilities
\* and the development-skills flag of the context, and rulesPath counts for
\* claude only.
C8_CrossReferenceLookup ==
  pc = "linked" =>
    /\ ret = CrossReferenceTable(name, context.agent, context.rulesPath)
    /\ (context.agent # claude =>
          ret = CrossReferenceTable(name, context.agent, <<>>))

C8_Witness ==
  /\ pc = "linked"
  /\ context.agent = claude
  /\ context.rulesPath = customRulesPath
  /\ name = <<"t","e","s","t","i","n","g">>
  /\ ret = <<"@","d","o","c","s","/","r","u","l","e","s","/","t","e","s","t","i","n","g",".","m","d">>

ProseFallback(ruleId) == <<"S","e","e"," ","\"">> \o ruleId \o <<"\""," ","s","e","c","t","i","o","n">>

\* C9 (as claimed): for every agent of output format class single-file
\* (copilot, windsurf, cline, aider) generateCrossReference returns the prose
\* fallback  See "<ruleId>" section.
C9_SingleFileAgentsGetProse ==
  (/\ pc = "linked"
   /\ ProgramContext
   /\ name \in RuleCatalog
   /\ getOutputFormat(context.agent) = "single-file")
    => (ret = ProseFallback(name))

-----------------------------------------------------------------------------
(* Claims about processTemplate (SpecRender)                               *)

NoDelimiters(text) == ~Includes(text, openTok) /\ ~Includes(text, closeTok)

\* a text leaf without any character of a marker or of a comment
PlainText(text) == \A k \in 1..Len(text) : text[k] \notin {"{", "}", "<", ">"}

\* a template of the documented syntax: blocks, plain text, and the variable
\* tokens {{LINK:<catalog id>}}, {{AGENT_NAME}}, {{RULES_PATH}}
WellFormed(nodes) ==
  LET leaves == Leaves(nodes)
  IN \A k \in 1..Len(leaves) : PlainText(leaves[k]) \/ leaves[k] \in VariableTokens

\* C1 (as claimed, taken on the templates of the documented syntax): the output
\* of processTemplate contains no {{ and no }}, for every agent.
C1_NoResidualDelimiters ==
  (pc = "done" /\ WellFormed(template)) => NoDelimiters(result)

Satisfied(node, ctx) ==
  IF node.kind = "if" THEN evaluateCondition(node.cond, ctx)
  ELSE ~evaluateCondition(node.cond, ctx)

\* the text leaves all of whose enclosing blocks are satisfied, in order
RECURSIVE Kept(_, _)
Kept(nodes, ctx) ==
  IF nodes = <<>> THEN <<>>
  ELSE LET n == Head(nodes)
       IN (IF n.kind = "text" THEN n.text
           ELSE IF Satisfied(n, ctx) THEN Kept(n.body, ctx)
           ELSE <<>>)
          \o Kept(Tail(nodes), ctx)

claimExample == <<"{","{","#","i","f"," ","h","a","s","-","s","a","n","d","b","o","x","}","}","A","{","{","^","i","f"," ","a","g","e","n","t",":","c","u","r","s","o","r","}","}","B","{","{","/","i","f","}","}","{","{","/","i","f","}","}">>

\* C2: for well-nested blocks of any depth (here up to MaxDepth) mixing {{#if}}
\* and {{^if}}, around text leaves that are plain text or variable tokens,
\* processConditionals returns exactly the leaves every enclosing block of which
\* is satisfied, in their order: each block is resolved by its own condition.
C2_NestedBlocksResolved ==
  (pc = "variables" /\ WellFormed(template)) => (result = Kept(template, context))

C2_Witness ==
  /\ pc = "variables"
  /\ context.agent = claude
  /\ content = claimExample
  /\ Depth(template) = 2
  /\ result = <<"A","B">>

\* C4 (as claimed): a {{LINK:<ruleId>}} token is replaced by
\* generateCrossReference(<ruleId>, context) for every rule identifier of the
\* catalog, {{AGENT_NAME}} by the agent identity and {{RULES_PATH}} by the rules
\* path.
C4_VariableTokensReplaced ==
  pc = "cleanup" =>
    /\ \A id \in RuleCatalog :
         template = <<Txt(LinkToken(id))>> => result = generateCrossReference(id, context)
    /\ template = <<Txt(agentNameTok)>> => result = context.agent
    /\ template = <<Txt(rulesPathTok)>> => result = context.rulesPath

\* text holds a block <!-- ... -->
HasCommentBlock(text) ==
  \E i \in 1..Len(text) :
    /\ StartsWithAt(text, i, commentOpen)
    /\ \E j \in (i + Len(commentOpen))..Len(text) : StartsWithAt(text, j, commentClose)

\* C5 (as claimed): if the rendered text R holds no {{ and no }}, then
\* processTemplate(R, context) = R.
C5_RerenderUnchanged ==
  (pc = "done" /\ NoDelimiters(result)) => (processTemplate(result, context) = result)

\* C5 (amended): if the rendered text R holds no {{, no }} and no comment block
\* <!-- ... -->, then processTemplate(R, context) = R.
C5_RerenderUnchangedWithoutComment ==
  (pc = "done" /\ NoDelimiters(result) /\ ~HasCommentBlock(result))
    => (processTemplate(result, context) = result)

C5_Witness ==
  /\ pc = "done"
  /\ template = GitWorkflowHead
  /\ context.agent = claude
  /\ NoDelimiters(result)
  /\ ~HasCommentBlock(result)
  /\ result # content
  /\ result = <<"#"," ","G","i","t","\n","\n","s","i","n","g","l","e","-","q","u","o","t","e","d","\n","\n","#","#"," ","H","o","o","k","s","\n">>

\* text without the newlines that follow two newlines: every maximal run of
\* three or more newlines cut to two, every other character kept
SqueezeNewlines(text) ==
  LET keep == {k \in 1..Len(text) :
                 ~(k >= 3 /\ text[k] = NL /\ text[k - 1] = NL /\ text[k - 2] = NL)}
      nth(i) == CHOOSE k \in keep : Cardinality({j \in keep : j <= k}) = i
  IN [i \in 1..Cardinality(keep) |-> text[nth(i)]]

\* C6: the final stage replaces each maximal run of three or more newlines by
\* exactly two and changes nothing else, and the output of processTemplate
\* holds no run of three or more newlines.
C6_BlankLinesCollapsed ==
  /\ [](pc = "done" => ~Includes(result, <<NL, NL, NL>>))
  /\ [][pc = "cleanup" => result' = SqueezeNewlines(result)]_vars

C6_Witness ==
  /\ pc = "done"
  /\ content = <<"x", NL, NL, NL, NL>>
  /\ result = <<"x", NL, NL>>

-----------------------------------------------------------------------------
(* Claims about scaffoldRules (Spec)                                       *)

Elements(list) == {list[k] : k \in 1..Len(list)}

\* the keys of a templates mapping
Keys(tpls) == {tpls[k].ruleId : k \in 1..Len(tpls)}

\* the identifiers of the catalog: the names of the directory's .md files
\* without that suffix
CatalogIds ==
  {SubSeq(f, 1, Len(f) - 3) :
     f \in {g \in Elements(packageRulesDir.entries) :
              Len(g) >= 3 /\ SubSeq(g, Len(g) - 2, Len(g)) = <<".","m","d">>}}

FilterGiven == "rules" \in DOMAIN values

SelectedIds ==
  IF FilterGiven THEN CatalogIds \cap Elements(values.rules) ELSE CatalogIds

\* C10: the keys of the output's templates mapping are the catalog identifiers
\* that occur in the filter list, or the whole catalog when no filter is
\* given; a filter entry that matches no template is ignored without error:
\* nothing is written to the error stream, the process is not exited, and a
\* run only fails for an invalid agent, a missing directory or an unreadable
\* selected file.
C10_RuleSelection ==
  /\ pc = "done" =>
       /\ Len(stdout) = 1
       /\ Keys(stdout[1].templates) = SelectedIds
       /\ stderr = <<>>
       /\ exitCalls = <<>>
  /\ pc = "exited" => values.agent \notin Agent
  /\ pc = "rejected" =>
       \/ ~packageRulesDir.exists
       \/ \E id \in SelectedIds : (id \o <<".","m","d">>) \in unreadable

\* a finished run whose filter names a template of the catalog and an
\* identifier of no template, over a catalog with a template left out
C10_Witness ==
  /\ pc = "done"
  /\ FilterGiven
  /\ <<"u","n","k","n","o","w","n">> \in Elements(values.rules)
  /\ Keys(stdout[1].templates) = {<<"t","e","s","t","i","n","g">>}
  /\ <<"b","u","n","-","a","p","i","s">> \in CatalogIds

ValidAgent == values.agent \in Agent

\* every selected template has been rendered and stored
AllRendered ==
  /\ fileIndex = Len(rulesToProcess) + 1
  /\ Len(templates) = Len(rulesToProcess)
  /\ \A k \in 1..Len(rulesToProcess) :
       /\ templates[k].filename = rulesToProcess[k]
       /\ templates[k].content = processTemplate(fileText(rulesToProcess[k]), MakeContext(values.agent))

\* C11: with an invalid --agent value the only step of a run writes one error
\* to the error stream and exits with status 1; the catalog is never listed,
\* no template is rendered and nothing is written to standard output.
\* Standard output is written only on runs with a valid agent, at most once,
\* and the step that writes it comes after all selected templates were
\* rendered.
C11_InvalidAgentExitsFirst ==
  /\ [](~ValidAgent =>
          /\ pc \in {"validate", "exited"}
          /\ templateFiles = <<>>
          /\ templates = <<>>
          /\ context = noContext
          /\ stdout = <<>>
          /\ pc = "exited" => (Len(stderr) = 1 /\ exitCalls = <<1>>))
  /\ [](stdout # <<>> => (ValidAgent /\ Len(stdout) = 1 /\ pc = "done" /\ AllRendered /\ exitCalls = <<>>))
  /\ [][(pc = "validate" /\ ~ValidAgent) => (pc' = "exited" /\ stderr' # stderr /\ exitCalls' = <<1>>)]_vars
  /\ [][stdout' # stdout => (stdout = <<>> /\ AllRendered /\ pc = "loop" /\ pc' = "done")]_vars

\* an invalid agent has exited; nothing else has happened
C11_Witness ==
  /\ pc = "exited"
  /\ values.agent = <<"g","e","m","i","n","i">>
  /\ packageRulesDir.exists
  /\ Len(packageRulesDir.entries) = 2
  /\ stderr = <<invalidAgentMessage(<<"g","e","m","i","n","i">>)>>
  /\ stdout = <<>>

-----------------------------------------------------------------------------
(* SpecDescribe: extractDescription(content) over texts of a few lines     *)

MaxLines == 3

\* lines of a rendered document: blank, heading, bold, indented, padded
DocumentLines ==
  {<<>>, <<" "," ">>, <<"#"," ","T">>, <<"#">>, <<"#","#"," ","H">>, <<"*","*","b","*","*"," ","x">>, <<"*","i","*">>, <<"t","e","x","t">>, <<" "," ","p","a","d","d","e","d"," ","\t">>,
   <<" "," ","#"," ","i","n","d","e","n","t","e","d">>, <<"\t","*","*","b","*","*">>, <<"c","r","\r">>, <<"\r">>, <<"a"," ","#"," ","b"," ","*","*"," ","c">>}

InitDescribe ==
  /\ template \in SeqsUpTo(DocumentLines, MaxLines)
  /\ content = joinLines(template)
  /\ pc = "call"
  /\ ret = NoCall
  /\ name = NoCall
  /\ context = noContext
  /\ result = <<>>
  /\ previousResult = <<>>
  /\ NoCommandLine
  /\ NoPath

CallExtractDescription ==
  /\ pc = "call"
  /\ ret' = extractDescription(content)
  /\ pc' = "described"
  /\ UNCHANGED <<context, name, template, content, result, previousResult>>
  /\ UNCHANGED scaffoldVars
  /\ UNCHANGED resolveVars

NextDescribe == CallExtractDescription

SpecDescribe == InitDescribe /\ [][NextDescribe]_vars

-----------------------------------------------------------------------------
(* Claims about extractDescription (SpecDescribe)                          *)

Blank == {" ", "\t", "\r", "\f", NL}

RECURSIVE TrimStart(_)
TrimStart(s) == IF s # <<>> /\ Head(s) \in Blank THEN TrimStart(Tail(s)) ELSE s

RECURSIVE TrimEnd(_)
TrimEnd(s) ==
  IF s # <<>> /\ s[Len(s)] \in Blank THEN TrimEnd(SubSeq(s, 1, Len(s) - 1)) ELSE s

Trimmed(s) == TrimEnd(TrimStart(s))

\* a trimmed line that is non-empty and begins with neither # nor **
Describing(line) ==
  /\ line # <<>>
  /\ line[1] # "#"
  /\ ~(Len(line) >= 2 /\ line[1] = "*" /\ line[2] = "*")

\* the first describing line of a list of lines, trimmed
RECURSIVE FirstDescribing(_)
FirstDescribing(lines) ==
  IF lines = <<>> THEN <<"D","e","v","e","l","o","p","m","e","n","t"," ","r","u","l","e">>
  ELSE IF Describing(Trimmed(Head(lines))) THEN Trimmed(Head(lines))
  ELSE FirstDescribing(Tail(lines))

\* C12: extractDescription returns, trimmed, the first line after the first
\* line that is non-empty after trimming and begins with neither # nor **,
\* and "Development rule" when there is none (only headings, bold or blank
\* lines after the title, a single line, or the empty text).
C12_FirstDescribingLine ==
  pc = "described" =>
    ret = (IF template = <<>> THEN <<"D","e","v","e","l","o","p","m","e","n","t"," ","r","u","l","e">> ELSE FirstDescribing(Tail(template)))

\* the title and a bold line are passed over, a padded line is returned
\* trimmed
C12_Witness ==
  /\ pc = "described"
  /\ template = <<<<"t","e","x","t">>, <<"*","*","b","*","*"," ","x">>, <<" "," ","p","a","d","d","e","d"," ","\t">>>>
  /\ ret = <<"p","a","d","d","e","d">>

-----------------------------------------------------------------------------
(* Claims about the output bundle (Spec)                                   *)

\* the lines of a text, split at each "\n"
RECURSIVE LinesOf(_)
LinesOf(text) ==
  LET nl == FirstIndex({k \in 1..Len(text) : text[k] = NL}, Len(text))
  IN IF nl > Len(text) THEN <<text>>
     ELSE <<SubSeq(text, 1, nl - 1)>> \o LinesOf(SubSeq(text, nl + 1, Len(text)))

\* - [<ruleId>](.plaited/rules/<filename>) - <description>
Bullet(ruleId, filename, description) ==
  <<"-"," ","[">> \o ruleId \o <<"]","(">> \o <<".","p","l","a","i","t","e","d","/","r","u","l","e","s","/">> \o filename \o <<")">> \o <<" ","-"," ">> \o description

IsBullet(line) == Len(line) >= 3 /\ SubSeq(line, 1, 3) = <<"-"," ","[">>

\* the manifest is the preamble, one bullet for each entry of the mapping and
\* no other bullet, and the closing section
ManifestOf(manifest, tpls) ==
  LET lines == LinesOf(manifest)
      n == Len(lines)
      first == Len(agentsMdPreamble)
      last == Len(agentsMdClosing)
  IN /\ n = first + Len(tpls) + last
     /\ SubSeq(lines, 1, first) = agentsMdPreamble
     /\ SubSeq(lines, n - last + 1, n) = agentsMdClosing
     /\ \A k \in 1..Len(tpls) :
          Cardinality({j \in 1..n : lines[j] = Bullet(tpls[k].ruleId, tpls[k].filename, tpls[k].description)}) = 1
     /\ Cardinality({j \in 1..n : IsBullet(lines[j])}) = Cardinality(Keys(tpls))

\* C13: the output carries agentsMdContent iff its format is agents-md, and
\* then the manifest holds, between the preamble and the closing section,
\* exactly one bullet for every key of the output's templates mapping and no
\* other bullet.
C13_ManifestIffAgentsMd ==
  pc = "done" =>
    /\ ("agentsMdContent" \in DOMAIN stdout[1]) <=> (stdout[1].format = "agents-md")
    /\ ("agentsMdContent" \in DOMAIN stdout[1]) =>
         ManifestOf(stdout[1].agentsMdContent, stdout[1].templates)

\* an agents-md output of two rules, with its two bullets
C13_Witness ==
  /\ pc = "done"
  /\ stdout[1].format = "agents-md"
  /\ Keys(stdout[1].templates) = {<<"t","e","s","t","i","n","g">>, <<"b","u","n","-","a","p","i","s">>}
  /\ Includes(stdout[1].agentsMdContent,
              <<"-"," ","[","b","u","n","-","a","p","i","s","]","(",".","p","l","a","i","t","e","d","/","r","u","l","e","s","/","b","u","n","-","a","p","i","s",".","m","d",")"," ","-"," ","D","e","v","e","l","o","p","m","e","n","t"," ","r","u","l","e","\n","-"," ","[","t","e","s","t","i","n","g","]","(",".","p","l","a","i","t","e","d","/","r","u","l","e","s","/","t","e","s","t","i","n","g",".","m","d",")"," ","-"," ","U","s","e"," ","t","e","s","t","(",")"," ","i","n","s","t","e","a","d"," ","o","f"," ","i","t","(",")",".","\n","\n","#","#"," ","Q","u","i","c","k">>)

-----------------------------------------------------------------------------
(* resolveFilePath (src/unnamed/part_000)                                  *)

\* path.split('/')
RECURSIVE segments(_)
segments(path) ==
  LET at == FirstIndex({k \in 1..Len(path) : path[k] = "/"}, Len(path))
  IN IF at > Len(path) THEN <<path>>
     ELSE <<SubSeq(path, 1, at - 1)>> \o segments(SubSeq(path, at + 1, Len(path)))

\* node:path normalizeString: empty and "." segments are dropped, ".." takes
\* the segment before it away (above the root it is dropped, or kept when
\* the path is relative)
RECURSIVE normalizeSegments(_, _, _)
normalizeSegments(todo, kept, allowAboveRoot) ==
  IF todo = <<>> THEN kept
  ELSE LET seg == Head(todo)
           rest == Tail(todo)
       IN IF seg = <<>> \/ seg = <<".">> THEN normalizeSegments(rest, kept, allowAboveRoot)
          ELSE IF seg = <<".", ".">>
          THEN IF kept # <<>> /\ kept[Len(kept)] # <<".", ".">>
               THEN normalizeSegments(rest, SubSeq(kept, 1, Len(kept) - 1), allowAboveRoot)
               ELSE IF allowAboveRoot THEN normalizeSegments(rest, Append(kept, seg), allowAboveRoot)
               ELSE normalizeSegments(rest, kept, allowAboveRoot)
          ELSE normalizeSegments(rest, Append(kept, seg), allowAboveRoot)

\* Array.prototype.join('/')
RECURSIVE joinSegments(_)
joinSegments(segs) ==
  IF segs = <<>> THEN <<>>
  ELSE IF Len(segs) = 1 THEN segs[1]
  ELSE segs[1] \o <<"/">> \o joinSegments(Tail(segs))

\* node:path (posix) normalize
normalize(path) ==
  IF path = <<>> THEN <<".">>
  ELSE LET isAbsolute == path[1] = "/"
           trailingSeparator == path[Len(path)] = "/"
           inner == joinSegments(normalizeSegments(segments(path), <<>>, ~isAbsolute))
       IN IF inner = <<>>
          THEN (IF isAbsolute THEN <<"/">> ELSE IF trailingSeparator THEN <<".", "/">> ELSE <<".">>)
          ELSE (IF isAbsolute THEN <<"/">> ELSE <<>>) \o inner
               \o (IF trailingSeparator THEN <<"/">> ELSE <<>>)

\* node:path (posix) join of two arguments: the non-empty ones, with a "/"
\* between them, normalized
join(a, b) ==
  IF a = <<>> /\ b = <<>> THEN <<".">>
  ELSE IF a = <<>> THEN normalize(b)
  ELSE IF b = <<>> THEN normalize(a)
  ELSE normalize(a \o <<"/">> \o b)

\* /\.(tsx?|jsx?|mjs|cjs|json)$/
sourceExtensions ==
  {<<".","t","s">>, <<".","t","s","x">>, <<".","j","s">>, <<".","j","s","x">>, <<".","m","j","s">>, <<".","c","j","s">>, <<".","j","s","o","n">>}

\* a scoped specifier taken for a file path as well
looksLikeFilePathOrScoped(path) ==
  Includes(path, <<"/">>) /\ \E ext \in sourceExtensions : endsWith(path, ext)

looksLikeFilePath(path) ==
  IF startsWith(path, <<"@">>) THEN FALSE
  ELSE Includes(path, <<"/">>) /\ \E ext \in sourceExtensions : endsWith(path, ext)

-----------------------------------------------------------------------------
(* SpecResolve: one call of resolveFilePath(filePath)                      *)

\* arguments: absolute, explicitly relative, implicit relative with each of
\* the seven extensions, bare and scoped specifiers, and near misses
FilePaths ==
  {<<"/","U","s","e","r","s","/","t","e","s","t","/","f","i","l","e",".","t","s">>, <<"/">>, <<"/","a","/",".",".","/","b",".","m","d">>,
   <<".","/","s","r","c","/","r","e","s","o","l","v","e","-","f","i","l","e","-","p","a","t","h",".","t","s">>, <<".",".","/","x">>, <<".">>, <<".","h","i","d","d","e","n">>, <<".","/","@","o","r","g","/","p","k","g",".","t","s">>,
   <<"s","r","c","/","u","t","i","l","s","/","p","a","r","s","e","r",".","t","s">>, <<"s","r","c","/","f","i","l","e",".","t","s","x">>, <<"s","r","c","/","f","i","l","e",".","j","s">>, <<"s","r","c","/","f","i","l","e",".","j","s","x">>,
   <<"s","r","c","/","f","i","l","e",".","m","j","s">>, <<"s","r","c","/","f","i","l","e",".","c","j","s">>, <<"s","r","c","/","f","i","l","e",".","j","s","o","n">>, <<"s","r","c","/",".",".","/","f","i","l","e",".","t","s">>, <<"s","r","c","/","/","f","i","l","e",".","t","s">>,
   <<"n","o","n","e","x","i","s","t","e","n","t","-","p","a","c","k","a","g","e","/","f","i","l","e",".","t","s">>, <<"p","l","a","i","t","e","d","/","w","o","r","k","s","h","o","p","/","g","e","t","-","p","a","t","h","s",".","t","s">>,
   <<"t","y","p","e","s","c","r","i","p","t">>, <<"f","i","l","e",".","t","s">>, <<"l","o","d","a","s","h","/","f","p">>, <<"s","r","c","/","f","i","l","e",".","m","d">>, <<"s","r","c","/","f","i","l","e",".","t","s",".","b","a","k">>,
   <<"s","r","c","/","f","i","l","e",".","T","S">>, <<"s","r","c","/","f","i","l","e","t","s">>, <<"s","r","c","/","f","i","l","e",".","t","s","/">>, <<"s","r","c","/",".","t","s">>, <<"a","/","b",".","t","s","s">>,
   <<"@","n","o","n","e","x","i","s","t","e","n","t","/","p","k","g","/","s","r","c","/","f","i","l","e",".","t","s">>, <<"@","o","r","g","/","p","k","g">>, <<"@">>, <<>>}

\* process.cwd(): an absolute directory
WorkingDirectories == {<<"/","w">>, <<"/","h","o","m","e","/","u","/","p","r","o","j","e","c","t">>}

\* Bun.resolve(filePath, cwd) rejects, or resolves with the absolute path of
\* the module it found
Resolutions ==
  {[ok |-> FALSE, path |-> <<>>],
   [ok |-> TRUE, path |-> <<"/","w","/","n","o","d","e","_","m","o","d","u","l","e","s","/","t","y","p","e","s","c","r","i","p","t","/","l","i","b","/","t","y","p","e","s","c","r","i","p","t",".","j","s">>],
   [ok |-> TRUE, path |-> <<"/","h","o","m","e","/","u","/","p","r","o","j","e","c","t","/","n","o","d","e","_","m","o","d","u","l","e","s","/","@","o","r","g","/","p","k","g","/","i","n","d","e","x",".","j","s">>]}

InitResolve ==
  /\ filePath \in FilePaths
  /\ cwd \in WorkingDirectories
  /\ resolution \in Resolutions
  /\ pc = "call"
  /\ ret = NoCall
  /\ name = NoCall
  /\ context = noContext
  /\ template = <<>>
  /\ content = <<>>
  /\ result = <<>>
  /\ previousResult = <<>>
  /\ NoCommandLine

\* if (filePath.startsWith('/')) return filePath
ReturnAbsolute ==
  /\ pc = "call"
  /\ startsWith(filePath, <<"/">>)
  /\ ret' = filePath
  /\ pc' = "returned"
  /\ UNCHANGED <<context, name, template, content, result, previousResult>>
  /\ UNCHANGED <<scaffoldVars, resolveVars>>

\* if (filePath.startsWith('.')) return join(cwd, filePath)
ReturnRelative ==
  /\ pc = "call"
  /\ ~startsWith(filePath, <<"/">>)
  /\ startsWith(filePath, <<".">>)
  /\ ret' = join(cwd, filePath)
  /\ pc' = "returned"
  /\ UNCHANGED <<context, name, template, content, result, previousResult>>
  /\ UNCHANGED <<scaffoldVars, resolveVars>>

\* if (looksLikeFilePath(filePath)) return join(cwd, filePath)
ReturnImplicitRelative ==
  /\ pc = "call"
  /\ ~startsWith(filePath, <<"/">>)
  /\ ~startsWith(filePath, <<".">>)
  /\ looksLikeFilePath(filePath)
  /\ ret' = join(cwd, filePath)
  /\ pc' = "returned"
  /\ UNCHANGED <<context, name, template, content, result, previousResult>>
  /\ UNCHANGED <<scaffoldVars, resolveVars>>

\* try { return await Bun.resolve(filePath, cwd) }
AwaitResolve ==
  /\ pc = "call"
  /\ ~startsWith(filePath, <<"/">>)
  /\ ~startsWith(filePath, <<".">>)
  /\ ~looksLikeFilePath(filePath)
  /\ pc' = "resolving"
  /\ UNCHANGED <<context, renderVars, scaffoldVars, resolveVars>>

\* Bun.resolve resolves: its result is returned
ResolveSucceeds ==
  /\ pc = "resolving"
  /\ resolution.ok
  /\ ret' = resolution.path
  /\ pc' = "returned"
  /\ UNCHANGED <<context, name, template, content, result, previousResult>>
  /\ UNCHANGED <<scaffoldVars, resolveVars>>

\* catch { return join(cwd, filePath) }
ResolveFails ==
  /\ pc = "resolving"
  /\ ~resolution.ok
  /\ ret' = join(cwd, filePath)
  /\ pc' = "returned"
  /\ UNCHANGED <<context, name, template, content, result, previousResult>>
  /\ UNCHANGED <<scaffoldVars, resolveVars>>

NextResolve ==
  \/ ReturnAbsolute
  \/ ReturnRelative
  \/ ReturnImplicitRelative
  \/ AwaitResolve
  \/ ResolveSucceeds
  \/ ResolveFails

SpecResolve == InitResolve /\ [][NextResolve]_vars

-----------------------------------------------------------------------------
(* Claims about resolveFilePath (SpecResolve)                              *)

FirstIs(path, c) == path # <<>> /\ path[1] = c

EndsIn(path, ext) ==
  Len(path) >= Len(ext) /\ \A k \in 1..Len(ext) : path[Len(path) - Len(ext) + k] = ext[k]

\* the four classes of the claim, in their precedence
PathClass(path) ==
  IF FirstIs(path, "/") THEN "absolute"
  ELSE IF FirstIs(path, ".") THEN "relative"
  ELSE IF /\ ~FirstIs(path, "@")
          /\ \E k \in 1..Len(path) : path[k] = "/"
          /\ \E ext \in {<<".","t","s">>, <<".","t","s","x">>, <<".","j","s">>, <<".","j","s","x">>, <<".","m","j","s">>, <<".","c","j","s">>, <<".","j","s","o","n">>} :
               EndsIn(path, ext)
  THEN "file"
  ELSE "specifier"

-----------------------------------------------------------------------------
(* Claims about the conditional loop (SpecRender)                          *)

At(text, i, pat) ==
  /\ i >= 1
  /\ i + Len(pat) - 1 <= Len(text)
  /\ SubSeq(text, i, i + Len(pat) - 1) = pat

NameChars ==
  {"a","b","c","d","e","f","g","h","i","j","k","l","m","n","o","p","q","r","s","t","u","v","w","x","y","z",
   "A","B","C","D","E","F","G","H","I","J","K","L","M","N","O","P","Q","R","S","T","U","V","W","X","Y","Z",
   "0","1","2","3","4","5","6","7","8","9","_",":","-"}

BlockMarkers == {<<"{","{","#","i","f"," ">>, <<"{","{","^","i","f"," ">>, <<"{","{","/","i","f","}","}">>}

\* an opening marker at i whose name ends before b, where the body begins,
\* and the closing marker at e, with no marker beginning inside the body
ResolvableAt(text, i, b, e) ==
  /\ \E open \in {<<"{","{","#","i","f"," ">>, <<"{","{","^","i","f"," ">>} :
       /\ At(text, i, open)
       /\ b - 2 > i + Len(open)
       /\ \A k \in (i + Len(open))..(b - 3) : text[k] \in NameChars
  /\ At(text, b - 2, <<"}","}">>)
  /\ e >= b
  /\ At(text, e, <<"{","{","/","i","f","}","}">>)
  /\ \A k \in b..(e - 1) : \A m \in BlockMarkers : ~At(text, k, m)

HasResolvableBlock(text) ==
  \E i \in {k \in 1..Len(text) : At(text, k, <<"{","{">>)} :
    \E b \in {k \in i..Len(text) + 1 : At(text, k - 2, <<"}","}">>)} :
      \E e \in {k \in b..Len(text) : At(text, k, <<"{","{","/">>)} :
        ResolvableAt(text, i, b, e)

\* C15: processConditionals terminates on every input: a pass that changes
\* the text makes it strictly shorter, no pass follows a pass that changed
\* nothing and the loop is left only then, so the length of the text bounds
\* the number of passes, and the text the loop returns has no resolvable
\* block.
C15_ConditionalLoopTerminates ==
  /\ [][(pc = "conditionals" /\ pc' = "conditionals") =>
          (result # previousResult /\ (result' = result \/ Len(result') < Len(result)))]_vars
  /\ [][(pc = "conditionals" /\ pc' # "conditionals") =>
          (result = previousResult /\ result' = result)]_vars
  /\ [](pc = "variables" => ~HasResolvableBlock(result))
  /\ [](pc = "conditionals" =>
          \/ previousResult = <<>> /\ result = removeTemplateHeaders(content)
          \/ result = previousResult
          \/ Len(result) < Len(previousResult) /\ Len(previousResult) <= Len(content))

\* the loop after its second pass, both of which resolved a block
C15_Witness ==
  /\ pc = "conditionals"
  /\ HasResolvableBlock(removeTemplateHeaders(content))
  /\ HasResolvableBlock(previousResult)
  /\ previousResult # removeTemplateHeaders(content)
  /\ Len(result) < Len(previousResult)
  /\ ~HasResolvableBlock(result)

-----------------------------------------------------------------------------
(* Claims about sibling blocks (SpecRender)                                *)

\* the truth of the conditions of the sibling templates in the context of
\* a run
Holds(cond) ==
  CASE cond = <<"d","e","v","e","l","o","p","m","e","n","t","-","s","k","i","l","l","s">> -> TRUE
    [] cond = <<"a","g","e","n","t",":","c","l","a","u","d","e">> -> context.agent = <<"c","l","a","u","d","e">>
    [] OTHER -> FALSE

\* a block keeps its body iff its condition holds ({{#if}}) or fails ({{^if}})
KeptBody(node) ==
  IF (node.kind = "if") = Holds(node.cond) THEN node.body[1].text ELSE <<>>

IsSiblings ==
  /\ Len(template) = 3
  /\ template[1].kind \in {"if", "unless"}
  /\ template[2] = Txt(<<"Y">>)
  /\ template[3].kind \in {"if", "unless"}
  /\ template[1].body = <<Txt(<<"X">>)>>
  /\ template[3].body = <<Txt(<<"Z">>)>>

\* C16: for [a]X[/]Y[b]Z[/] with positive or inverse blocks, conditional
\* resolution keeps Y whatever a and b are, keeps X iff the first block is
\* satisfied and Z iff the second is, in the original order; the finished
\* rendering is that text as well.
C16_SiblingsNotMerged ==
  (IsSiblings /\ pc \in {"variables", "cleanup", "done"}) =>
    result = KeptBody(template[1]) \o <<"Y">> \o KeptBody(template[3])

\* X is dropped and Z kept around Y: a failing positive block and an inverse
\* block on an unknown name
C16_Witness ==
  /\ IsSiblings
  /\ pc = "variables"
  /\ content = <<"{","{","#","i","f"," ","a","g","e","n","t",":","c","l","a","u","d","e","}","}","X","{","{","/","i","f","}","}","Y","{","{","^","i","f"," ","n","o","n","s","e","n","s","e","}","}","Z","{","{","/","i","f","}","}">>
  /\ context.agent = <<"c","u","r","s","o","r">>
  /\ result = <<"Y","Z">>

-----------------------------------------------------------------------------
(* Claims about header stripping (SpecRender)                              *)

RECURSIVE DropNewlines(_)
DropNewlines(text) ==
  IF text # <<>> /\ Head(text) = NL THEN DropNewlines(Tail(text)) ELSE text

\* the raw text without its comment blocks, each taken from the leftmost
\* <!-- that has a --> after it to the first such -->, and without the
\* newlines that follow a block
RECURSIVE StripComments(_)
StripComments(text) ==
  LET closes(i) == {j \in (i + 4)..Len(text) : At(text, j, <<"-","-",">">>)}
      opens == {i \in 1..Len(text) : At(text, i, <<"<","!","-","-">>) /\ closes(i) # {}}
  IN IF opens = {} THEN text
     ELSE LET i == Min(opens)
              j == Min(closes(i))
          IN SubSeq(text, 1, i - 1) \o StripComments(DropNewlines(SubSeq(text, j + 3, Len(text))))

\* what the comment templates render to
RenderedComment(text) ==
  CASE text = <<"<","!","-","-"," ","{","{","#","i","f"," ","h","a","s","-","s","a","n","d","b","o","x","}","}"," ","-","-",">","\n","\n","A","{","{","/","i","f","}","}","B">> -> <<"A","{","{","/","i","f","}","}","B">>
    [] text = <<"{","{","#","i","f"," ","n","o","n","s","e","n","s","e","}","}","A","<","!","-","-"," ","{","{","/","i","f","}","}"," ","-","-",">","B","{","{","/","i","f","}","}","C">> -> <<"C">>
    [] text = <<"<","!","-","-"," ","{","{","A","G","E","N","T","_","N","A","M","E","}","}"," ","{","{","L","I","N","K",":","t","e","s","t","i","n","g","}","}"," ","-","-",">","{","{","A","G","E","N","T","_","N","A","M","E","}","}">> -> context.agent
    [] text = <<"A","<","!","-","-"," ","c"," ","-","-",">","\n","\n","\n","B","<","!","-","-"," ","d"," ","-","-",">","C">> -> <<"A","B","C">>
    [] text = <<"A","\n","<","!","-","-"," ","c"," ","-","-",">","B">> -> <<"A","\n","B">>
    [] text = <<"<","!","-","-"," ","o","p","e","n"," ","{","{","#","i","f"," ","d","e","v","e","l","o","p","m","e","n","t","-","s","k","i","l","l","s","}","}","X","{","{","/","i","f","}","}">> -> <<"<","!","-","-"," ","o","p","e","n"," ","X">>
    [] OTHER -> result

\* C17: the first stage of a rendering, before any conditional is resolved,
\* removes every comment block of the raw text with the newlines that follow
\* it and nothing else; a marker or token inside a comment is therefore never
\* evaluated and never pairs with a {{/if}} outside it.
C17_HeadersStrippedFirst ==
  /\ [][pc = "headers" => (pc' = "conditionals" /\ result' = StripComments(content))]_vars
  /\ [][pc' = "conditionals" => pc \in {"headers", "conditionals"}]_vars
  /\ [](pc = "headers" => result = content)
  /\ [](pc = "done" => result = RenderedComment(content))

\* a marker inside the header comment went with it; the closing marker
\* outside is left unpaired
C17_Witness ==
  /\ pc = "done"
  /\ content = <<"<","!","-","-"," ","{","{","#","i","f"," ","h","a","s","-","s","a","n","d","b","o","x","}","}"," ","-","-",">","\n","\n","A","{","{","/","i","f","}","}","B">>
  /\ result = <<"A","{","{","/","i","f","}","}","B">>

-----------------------------------------------------------------------------
(* Claims about the order of the stages (SpecRender)                       *)

Word == NameChars \ {":", "-"}

\* index of the }} that ends a {{LINK:<id>}} token at i (0 if there is none)
LinkEnd(text, i) ==
  IF ~At(text, i, <<"{","{","L","I","N","K",":">>) THEN 0
  ELSE LET ends == {e \in (i + 8)..Len(text) :
                      /\ At(text, e, <<"}","}">>)
                      /\ \A k \in (i + 7)..(e - 1) : text[k] \in Word}
       IN IF ends = {} THEN 0 ELSE Min(ends)

\* the token that begins at index i, with what replaces it in the context
\* of the run
TokenAt(text, i) ==
  IF At(text, i, <<"{","{","A","G","E","N","T","_","N","A","M","E","}","}">>) THEN [len |-> 14, rep |-> context.agent]
  ELSE IF At(text, i, <<"{","{","R","U","L","E","S","_","P","A","T","H","}","}">>) THEN [len |-> 14, rep |-> context.rulesPath]
  ELSE IF LinkEnd(text, i) > 0
  THEN [len |-> LinkEnd(text, i) + 2 - i,
        rep |-> generateCrossReference(SubSeq(text, i + 7, LinkEnd(text, i) - 1), context)]
  ELSE [len |-> 0, rep |-> <<>>]

\* every token of the text replaced in one scan from left to right; what a
\* replacement puts in is not scanned
RECURSIVE SubstituteOnce(_)
SubstituteOnce(text) ==
  LET hits == {i \in 1..Len(text) : TokenAt(text, i).len > 0}
  IN IF hits = {} THEN text
     ELSE LET i == Min(hits)
              t == TokenAt(text, i)
          IN SubSeq(text, 1, i - 1) \o t.rep
             \o SubstituteOnce(SubSeq(text, i + t.len, Len(text)))

\* a block that only holds a variable token
IsTokenBlock ==
  /\ Len(template) = 1
  /\ template[1].kind \in {"if", "unless"}
  /\ Len(template[1].body) = 1
  /\ template[1].body[1].kind = "text"
  /\ TokenAt(template[1].body[1].text, 1).len = Len(template[1].body[1].text)

\* C18: variables are substituted only once conditional resolution has
\* reached its fixed point, in one scan whose output is not scanned again and
\* after which no conditional is resolved: a marker whose name is a variable
\* token is never evaluated, a token in a removed block does not reach the
\* output, and a token completed by a substitution is left as it is.
C18_VariablesAfterConditionals ==
  /\ [][(pc # "variables" /\ pc' = "variables") =>
          (pc = "conditionals" /\ result = previousResult /\ ~HasResolvableBlock(result))]_vars
  /\ [][pc = "variables" => (pc' = "cleanup" /\ result' = SubstituteOnce(result))]_vars
  /\ [][pc = "cleanup" => (pc' = "done" /\ Len(result') <= Len(result))]_vars
  /\ [](pc = "done" =>
          /\ content = <<"{","{","#","i","f"," ","a","g","e","n","t",":","{","{","A","G","E","N","T","_","N","A","M","E","}","}","}","}","X","{","{","/","i","f","}","}">> =>
               result = <<"{","{","#","i","f"," ","a","g","e","n","t",":">> \o context.agent \o <<"}","}","X","{","{","/","i","f","}","}">>
          /\ content = <<"{","{","L","I","N","K",":","{","{","A","G","E","N","T","_","N","A","M","E","}","}","}","}">> =>
               result = <<"{","{","L","I","N","K",":">> \o context.agent \o <<"}","}">>
          /\ (IsTokenBlock /\ ~Satisfied(template[1], context)) => result = <<>>)

\* a marker named by a variable token came out unevaluated, with the agent's
\* name in it
C18_Witness ==
  /\ pc = "done"
  /\ content = <<"{","{","#","i","f"," ","a","g","e","n","t",":","{","{","A","G","E","N","T","_","N","A","M","E","}","}","}","}","X","{","{","/","i","f","}","}">>
  /\ context.agent = <<"c","u","r","s","o","r">>
  /\ result = <<"{","{","#","i","f"," ","a","g","e","n","t",":","c","u","r","s","o","r","}","}","X","{","{","/","i","f","}","}">>

-----------------------------------------------------------------------------
(* Claims about the templates mapping (Spec)                               *)

\* the files the loop has processed so far
Processed == SubSeq(rulesToProcess, 1, fileIndex - 1)

\* C19: every processed file appears exactly once as a key of the templates
\* mapping, during the loop and in the output: there are as many keys as
\* processed files, distinct files have distinct keys, each processed file
\* is the filename of exactly one entry, and the filename of the entry of a
\* key K is K.md.
C19_OneKeyPerFile ==
  /\ pc \in {"loop", "done"} =>
       /\ Len(templates) = Len(Processed)
       /\ Cardinality(Keys(templates)) = Len(Processed)
       /\ \A k \in 1..Len(Processed) :
            Cardinality({j \in 1..Len(templates) : templates[j].filename = Processed[k]}) = 1
       /\ \A j \in 1..Len(templates) :
            templates[j].filename = templates[j].ruleId \o <<".","m","d">>
  /\ pc = "done" =>
       /\ stdout[1].templates = templates
       /\ Processed = rulesToProcess
       /\ Cardinality(Keys(stdout[1].templates)) = Len(rulesToProcess)

\* an output of three rules under three keys
C19_Witness ==
  /\ pc = "done"
  /\ Len(rulesToProcess) = 3
  /\ Keys(stdout[1].templates) = {<<"g","i","t","-","w","o","r","k","f","l","o","w">>, <<"t","e","s","t","i","n","g">>, <<"b","u","n","-","a","p","i","s">>}

-----------------------------------------------------------------------------
(* Claims about the render context (Spec)                                  *)

\* what the testing template renders to for an agent
TestingFor(agent) ==
  <<"#"," ","T","e","s","t","i","n","g","\n","\n"," "," ","U","s","e"," ","t","e","s","t","(",")"," ","i","n","s","t","e","a","d"," ","o","f"," ","i","t","(",")",".","\n","\n","S","e","e"," ">>
  \o CrossReferenceTable(<<"a","c","c","u","r","a","c","y">>, agent, getRulesPath(agent)) \o <<"\n">>

\* the stored entry of a file is a function of the file's text and of the
\* agent alone
EntryOf(file, agent) ==
  LET rendered == processTemplate(fileText(file), MakeContext(agent))
  IN [ruleId |-> SubSeq(file, 1, Len(file) - 3),
      filename |-> file,
      content |-> rendered,
      description |-> extractDescription(rendered)]

\* C20: the context is built once, when the catalog has been listed, and is
\* never modified afterwards; the entry stored for a rule is the rendering of
\* its own text under the context of the run's agent and nothing else, so it
\* is the same at every position of the loop and whatever else is selected.
C20_ContextBuiltOnce ==
  /\ [][context' # context =>
          (pc = "readdir" /\ context = noContext /\ context' = MakeContext(values.agent))]_vars
  /\ [](pc \in {"loop", "done"} => context = MakeContext(values.agent))
  /\ [](\A j \in 1..Len(templates) :
          /\ templates[j] = EntryOf(templates[j].filename, values.agent)
          /\ templates[j].filename = testingMd =>
               /\ templates[j].content = TestingFor(values.agent)
               /\ templates[j].description = <<"U","s","e"," ","t","e","s","t","(",")"," ","i","n","s","t","e","a","d"," ","o","f"," ","i","t","(",")",".">>)
  /\ [][\A j \in 1..Len(templates) : (Len(templates') >= j /\ templates'[j] = templates[j])]_vars

\* the testing template rendered last of three, for an agent other than the
\* default
C20_Witness ==
  /\ pc = "done"
  /\ values.agent = <<"c","u","r","s","o","r">>
  /\ Len(templates) = 3
  /\ templates[3].filename = testingMd
  /\ templates[3].content = <<"#"," ","T","e","s","t","i","n","g","\n","\n"," "," ","U","s","e"," ","t","e","s","t","(",")"," ","i","n","s","t","e","a","d"," ","o","f"," ","i","t","(",")",".","\n","\n","S","e","e"," ",".","c","u","r","s","o","r","/","r","u","l","e","s","/","a","c","c","u","r","a","c","y",".","m","d","\n">>
-----------------------------------------------------------------------------
(* Claims about failures of the file system (Spec)                         *)

\* the read of the file the loop is at fails
ReadFails ==
  /\ pc = "loop"
  /\ fileIndex <= Len(rulesToProcess)
  /\ rulesToProcess[fileIndex] \in unreadable

\* C21: when the listing of the catalog fails, or the read of a selected
\* template, the next step rejects scaffoldRules; a rejected run takes no
\* further step and has written nothing to standard output, so a bundle is
\* only ever written by a run all of whose reads succeeded, and it holds
\* every selected template.
C21_FailurePropagates ==
  /\ [][(pc = "readdir" /\ ~packageRulesDir.exists) => pc' = "rejected"]_vars
  /\ [][ReadFails => pc' = "rejected"]_vars
  /\ [][pc = "rejected" => FALSE]_vars
  /\ [](pc = "rejected" => (stdout = <<>> /\ exitCalls = <<>>))
  /\ [](stdout # <<>> =>
          /\ packageRulesDir.exists
          /\ \A k \in 1..Len(rulesToProcess) : rulesToProcess[k] \notin unreadable
          /\ Len(stdout[1].templates) = Len(rulesToProcess))

\* the second of two selected templates could not be read: the first was
\* rendered, nothing was written
C21_Witness ==
  /\ pc = "rejected"
  /\ rulesToProcess = <<bunApisMd, testingMd>>
  /\ fileIndex = 2
  /\ Len(templates) = 1
  /\ stdout = <<>>

-----------------------------------------------------------------------------
(* SpecPair: a positive and an inverse block on one condition and one body *)

\* bodies without a marker: text, nothing, lines with a token, and pieces
\* that fall short of a marker
MarkerFreeBodies ==
  {<<"X">>, <<>>, <<"l","i","n","e","\n","{","{","A","G","E","N","T","_","N","A","M","E","}","}","\n">>, <<"{","{","#","i","f">>, <<"}","}","{","{","/","i","f","}">>}

PositiveBlock(condition, block) == openIf \o condition \o closeTok \o block \o closeIf

InverseBlock(condition, block) == openNotIf \o condition \o closeTok \o block \o closeIf

InitPair ==
  /\ context \in Contexts
  /\ name \in Names
  /\ content \in MarkerFreeBodies
  /\ pc = "call"
  /\ ret = NoCall
  /\ template = <<>>
  /\ result = <<>>
  /\ previousResult = <<>>
  /\ NoCommandLine
  /\ NoPath

\* processConditionals on each of the two blocks and on the two side by side
ResolvePair ==
  /\ pc = "call"
  /\ ret' = [positive |-> processConditionals(PositiveBlock(name, content), context),
             inverse  |-> processConditionals(InverseBlock(name, content), context),
             paired   |-> processConditionals(PositiveBlock(name, <<"A">> \o content)
                                              \o InverseBlock(name, <<"B">> \o content), context)]
  /\ pc' = "resolved"
  /\ UNCHANGED <<context, name, template, content, result, previousResult>>
  /\ UNCHANGED <<scaffoldVars, resolveVars>>

NextPair == ResolvePair

SpecPair == InitPair /\ [][NextPair]_vars

-----------------------------------------------------------------------------
(* Claims about complementary blocks (SpecPair)                            *)

\* C22: for every condition name of the grammar, recognized or not, every
\* context and every marker-free body X, one of {{#if c}}X{{/if}} and
\* {{^if c}}X{{/if}} resolves to X and the other to the empty text, and a
\* positive and an inverse block on c side by side leave the body of exactly
\* one of them.
C22_BlocksComplementary ==
  (pc = "resolved" /\ IsConditionToken(name)) =>
    /\ \/ ret.positive = content /\ ret.inverse = <<>>
       \/ ret.positive = <<>> /\ ret.inverse = content
    /\ ret.paired \in {<<"A">> \o content, <<"B">> \o content}
    /\ content # <<>> => ((ret.paired = <<"A">> \o content) <=> (ret.positive = content))

\* an unknown name: the positive block leaves nothing, the inverse one its
\* body
C22_Witness ==
  /\ pc = "resolved"
  /\ name = cNonsense
  /\ content = <<"l","i","n","e","\n","{","{","A","G","E","N","T","_","N","A","M","E","}","}","\n">>
  /\ ret.positive = <<>>
  /\ ret.inverse = content
  /\ ret.paired = <<"B">> \o content

====
